---- MODULE Spec2Model ----
(***************************************************************************)
(* A state-machine model of the club-management REST API.                  *)
(*                                                                         *)
(* The durable state is the relational store: one set of rows per table.   *)
(* Every route handler is an async function; each `await db.*` call is one *)
(* atomic store operation and the handler can be interleaved with other    *)
(* requests between two awaits.  A handler is therefore modelled as one    *)
(* action per await, the code that runs synchronously after an await being *)
(* part of the same action.  `reqs` holds the in-flight requests with      *)
(* their local variables and, once answered, their response.               *)
(*                                                                         *)
(* A nullable column is the empty set when NULL and a singleton otherwise. *)
(* An object such as a request body or `updateData` is a record whose      *)
(* DOMAIN holds exactly the keys that are defined.                         *)
(***************************************************************************)
EXTENDS Integers, FiniteSets, Sequences, TLC

VARIABLES
    users,                \* table users
    join_applications,    \* table join_applications
    events,               \* table events
    event_registrations,  \* table event_registrations
    tasks,                \* table tasks
    announcements,        \* table announcements
    reqs,                 \* request slot -> the request's position, locals, response
    nextId,               \* table name -> number of ids generated so far
    now                   \* the clock read by new Date()

vars == <<users, join_applications, events, event_registrations, tasks,
          announcements, reqs, nextId, now>>

(* Bounds of the model. *)
MaxReqs == 2
MaxEvents == 1
MaxTime == 1
MaxApplications == 2
MaxUsers == 2
MaxTasks == 1
MaxRows == 12
MaxAnnouncements == 1

Slots == 1..MaxReqs

NULL == {}
Some(v) == {v}
Val(o) == CHOOSE v \in o : TRUE

Idle == [pc |-> "idle"]

(***************************************************************************)
(* The generic data access layer, `db`.                                    *)
(***************************************************************************)

\* db.query(table, {where}): the rows equal to `where` on each of its keys.
Query(table, where) ==
    {row \in table : \A k \in DOMAIN where : row[k] = where[k]}

\* db.findById: select * eq(id).single(); single() yields an error unless
\* exactly one row matches, and findById rethrows it.
FindByIdThrows(table, id) == Cardinality(Query(table, [id |-> id])) # 1

FindByIdData(table, id) == CHOOSE row \in Query(table, [id |-> id]) : TRUE

\* The row after update(data): the keys of `data` overwrite the columns.
Merge(row, data) ==
    [k \in DOMAIN row |-> IF k \in DOMAIN data THEN data[k] ELSE row[k]]

\* db.update(table, id, data): the table afterwards.  The store runs no
\* UPDATE for an object without keys.
UpdateRows(table, id, data) ==
    {IF row.id = id /\ DOMAIN data # {} THEN Merge(row, data) ELSE row :
        row \in table}

\* db.update returns the updated rows (.select()).
UpdateResult(table, id, data) ==
    IF DOMAIN data = {} THEN {}
    ELSE {Merge(row, data) : row \in Query(table, [id |-> id])}

\* db.delete(table, id): the table afterwards.
DeleteRows(table, id) == {row \in table : row.id # id}

(***************************************************************************)
(* Responses.                                                              *)
(***************************************************************************)

\* res.status(code).json({error}) sent by the route itself.
Reply(code, text) == [status |-> code, error |-> text, via |-> "route"]

\* The 400 of a failed validation: error.details mapped to {field, message},
\* one entry per field Joi reports.
ValidationError(fields) == Reply(400, "Validation error") @@ [details |-> fields]

\* catch (error) { next(error) }: the centralized error handler answers.
ErrorHandlerStatus == 500

Thrown(text) == [status |-> ErrorHandlerStatus, error |-> text, via |-> "next"]

\* A request that has been answered: its parameters and its response.  The
\* handler's local variables are gone.
Params ==
    {"kind", "id", "userId", "registeredBefore", "email", "takenBefore",
     "missing", "absent", "query", "status", "reviewedBy",
     "unknownKeys", "rawEmail", "replaced"}

Done(r, resp) ==
    [pc |-> "done", resp |-> resp]
    @@ [k \in DOMAIN r \cap Params |-> r[k]]

Free(s) == reqs[s].pc \in {"idle", "done"}

(***************************************************************************)
(* JavaScript values whose type the code tests.                            *)
(***************************************************************************)
JBool(b) == [t |-> "boolean", v |-> IF b THEN "true" ELSE "false"]
JStr(x) == [t |-> "string", v |-> x]
TypeOf(x) == x.t
BoolOf(x) == x.v = "true"

(***************************************************************************)
(* Validation: eventSchema.                                                *)
(* A string field of a body is "ok" when it meets the rules of its schema  *)
(* entry and "bad" when it breaks one; maxAttendees is null or a number.   *)
(***************************************************************************)
EventRequired ==
    {"title", "description", "eventDate", "eventTime", "location", "category"}

EventOptional == {"difficulty", "imageUrl", "department"}

MinAttendees == 1
MaxAttendeesLimit == 1000

\* The fields Joi reports an error for (abortEarly: false).
EventSchemaErrors(body) ==
    {f \in EventRequired : f \notin DOMAIN body \/ body[f] = "bad"}
    \cup {f \in EventOptional : f \in DOMAIN body /\ body[f] = "bad"}
    \cup {f \in {"maxAttendees"} :
            /\ f \in DOMAIN body
            /\ body[f] # NULL
            /\ Val(body[f]) \notin MinAttendees..MaxAttendeesLimit}

\* value.x || null for an optional string field.
OrNull(body, f) == IF f \in DOMAIN body THEN Some(body[f]) ELSE NULL

\* The keys of an object literal whose value is undefined are not sent.
MaxAttendeesKey(body) ==
    IF "maxAttendees" \in DOMAIN body
        THEN [max_attendees |-> body.maxAttendees]
        ELSE <<>>

EventStatuses == {"draft", "active", "completed", "cancelled"}

(***************************************************************************)
(* Store constraints of database-structer.sql.                             *)
(***************************************************************************)
UserExists(id) == \E u \in users : u.id = id

\* events.created_by UUID REFERENCES users(id) NOT NULL
EventInsertOk(data) == UserExists(data.created_by)

\* The constraint as UNIQUE(event_id): one registration per event.
RegistrationUniquePerEvent(data) ==
    Query(event_registrations, [event_id |-> data.event_id]) = {}

\* event_registrations: UNIQUE(event_id, user_id)
RegistrationUnique(data) ==
    Query(event_registrations,
          [event_id |-> data.event_id, user_id |-> data.user_id]) = {}

\* The table without its UNIQUE(event_id, user_id).
RegistrationInsertOkNoUnique(data) ==
    /\ \E e \in events : e.id = data.event_id
    /\ UserExists(data.user_id)

\* event_registrations: both columns REFERENCES ... and the unique constraint.
RegistrationInsertOk(data) ==
    /\ \E e \in events : e.id = data.event_id
    /\ UserExists(data.user_id)
    /\ RegistrationUnique(data)

\* uuid_generate_v4() for a row of event_registrations: an id no row has.
FreshRegistrationId ==
    CHOOSE i \in 1..(Cardinality(event_registrations) + 1) :
        \A row \in event_registrations : row.id # i

(***************************************************************************)
(* Event router.                                                           *)
(***************************************************************************)

\* eventData taking status and is_active from the body.
EventDataOfBody(body) ==
    [difficulty |-> OrNull(body, "difficulty"),
     image_url |-> OrNull(body, "imageUrl"),
     department |-> OrNull(body, "department"),
     created_by |-> IF "createdBy" \in DOMAIN body THEN body.createdBy ELSE 0,
     status |-> IF "status" \in DOMAIN body THEN body.status ELSE "draft",
     is_active |-> "isActive" \in DOMAIN body /\ BoolOf(body.isActive)]
    @@ MaxAttendeesKey(body)

\* eventData of POST /api/events.
EventData(body) ==
    [difficulty |-> OrNull(body, "difficulty"),
     image_url |-> OrNull(body, "imageUrl"),
     department |-> OrNull(body, "department"),
     created_by |-> IF "createdBy" \in DOMAIN body THEN body.createdBy ELSE 0,
     status |-> "draft",
     is_active |-> FALSE]
    @@ MaxAttendeesKey(body)

\* The inserted row as if is_active defaulted to true.
EventRowActive(id, data) ==
    [Merge([id |-> id, max_attendees |-> NULL, current_attendees |-> 0,
            difficulty |-> NULL, image_url |-> NULL, department |-> NULL,
            status |-> "draft", is_active |-> FALSE, activation_date |-> NULL,
            created_by |-> 0], data) EXCEPT !.is_active = TRUE]

\* The inserted row: the column defaults under the data sent.
EventRow(id, data) ==
    Merge([id |-> id, max_attendees |-> NULL, current_attendees |-> 0,
           difficulty |-> NULL, image_url |-> NULL, department |-> NULL,
           status |-> "draft", is_active |-> FALSE, activation_date |-> NULL,
           created_by |-> 0], data)

\* POST /api/events
EventCreate(s, body) ==
    /\ Free(s)
    /\ LET r == [kind |-> "event.create", id |-> nextId.events + 1,
                 absent |-> EventRequired \ DOMAIN body] IN
       IF EventSchemaErrors(body) # {}
       THEN /\ reqs' = [reqs EXCEPT ![s] = Done(r, ValidationError(EventSchemaErrors(body)))]
            /\ UNCHANGED <<events, nextId>>
       ELSE IF ~EventInsertOk(EventData(body))
       THEN /\ reqs' = [reqs EXCEPT ![s] = Done(r, Thrown("insert"))]
            /\ UNCHANGED <<events, nextId>>
       ELSE /\ nextId.events < MaxEvents
            /\ events' = events \cup {EventRow(nextId.events + 1, EventData(body))}
            /\ nextId' = [nextId EXCEPT !.events = @ + 1]
            /\ reqs' = [reqs EXCEPT ![s] = Done(r, Reply(201, ""))]
    /\ UNCHANGED <<users, join_applications, event_registrations, tasks,
                   announcements, now>>

\* updateData with is_active and never an activation_date.
EventUpdateDataNoStamp(body, existingEvent) ==
    [difficulty |-> OrNull(body, "difficulty"),
     image_url |-> OrNull(body, "imageUrl"),
     department |-> OrNull(body, "department")]
    @@ MaxAttendeesKey(body)
    @@ (IF "status" \in DOMAIN body /\ body.status \in EventStatuses
            THEN [status |-> body.status] ELSE <<>>)
    @@ (IF "isActive" \in DOMAIN body /\ TypeOf(body.isActive) = "boolean"
            THEN [is_active |-> BoolOf(body.isActive)] ELSE <<>>)

\* updateData of PUT /api/events/:id, given the row findById returned.
EventUpdateData(body, existingEvent) ==
    [difficulty |-> OrNull(body, "difficulty"),
     image_url |-> OrNull(body, "imageUrl"),
     department |-> OrNull(body, "department")]
    @@ MaxAttendeesKey(body)
    @@ (IF "status" \in DOMAIN body /\ body.status \in EventStatuses
            THEN [status |-> body.status] ELSE <<>>)
    @@ (IF "isActive" \in DOMAIN body /\ TypeOf(body.isActive) = "boolean"
            THEN [is_active |-> BoolOf(body.isActive)]
                 @@ (IF BoolOf(body.isActive) /\ existingEvent.activation_date = NULL
                         THEN [activation_date |-> Some(now)] ELSE <<>>)
            ELSE <<>>)

\* The column an optional field of the event body is written to.
EventColumn(f) == IF f = "imageUrl" THEN "image_url" ELSE f

\* PUT /api/events/:id up to its second await: findById, validate, updateData.
\* omitted and replaced are history: the optional fields the body lacks, and
\* those of them whose column held a value in the row findById read.
EventUpdateFind(s, id, body) ==
    /\ Free(s)
    /\ LET r == [kind |-> "event.update", id |-> id,
                 missing |-> Query(events, [id |-> id]) = {}] IN
       reqs' = [reqs EXCEPT ![s] =
           IF FindByIdThrows(events, id) THEN Done(r, Thrown("findById"))
           ELSE IF EventSchemaErrors(body) # {}
                THEN Done(r, ValidationError(EventSchemaErrors(body)))
           ELSE LET existingEvent == FindByIdData(events, id) IN
                [pc |-> "event.update.write",
                 updateData |-> EventUpdateData(body, existingEvent),
                 omitted |-> EventOptional \ DOMAIN body,
                 replaced |-> {f \in EventOptional \ DOMAIN body :
                                  existingEvent[EventColumn(f)] # NULL}]
                @@ r]
    /\ UNCHANGED <<users, join_applications, events, event_registrations, tasks,
                   announcements, nextId, now>>

\* PUT /api/events/:id: db.update and the response.
EventUpdateWrite(s) ==
    /\ reqs[s].pc = "event.update.write"
    /\ LET r == reqs[s] IN
       /\ events' = UpdateRows(events, r.id, r.updateData)
       /\ reqs' = [reqs EXCEPT ![s] =
            IF UpdateResult(events, r.id, r.updateData) = {}
                THEN Done(r, Thrown("Failed to update event"))
                ELSE Done(r, Reply(200, ""))]
    /\ UNCHANGED <<users, join_applications, event_registrations, tasks,
                   announcements, nextId, now>>

\* DELETE /api/events/:id up to its second await.
EventDeleteFind(s, id) ==
    /\ Free(s)
    /\ LET r == [kind |-> "event.delete", id |-> id,
                 missing |-> Query(events, [id |-> id]) = {}] IN
       reqs' = [reqs EXCEPT ![s] =
           IF FindByIdThrows(events, id) THEN Done(r, Thrown("findById"))
           ELSE [pc |-> "event.delete.write"] @@ r]
    /\ UNCHANGED <<users, join_applications, events, event_registrations, tasks,
                   announcements, nextId, now>>

\* DELETE /api/events/:id: db.delete; the foreign key cascades to the
\* registrations of the event.
EventDeleteWrite(s) ==
    /\ reqs[s].pc = "event.delete.write"
    /\ events' = DeleteRows(events, reqs[s].id)
    /\ event_registrations' =
          {row \in event_registrations : row.event_id # reqs[s].id}
    /\ reqs' = [reqs EXCEPT ![s] = Done(reqs[s], Reply(200, ""))]
    /\ UNCHANGED <<users, join_applications, tasks, announcements, nextId, now>>

\* The duplicate check never finding a row.
AlreadyRegisteredNever(existingRegistration) == FALSE

\* existingRegistration && existingRegistration.length > 0
AlreadyRegistered(existingRegistration) == existingRegistration # {}

\* POST /api/events/:id/register up to the await after findById: the userId
\* guard, findById, the is_active guard.  Of `event` only max_attendees is
\* read afterwards.  registeredBefore is history, not a variable of the
\* code: whether the user had a registration for the event when the request
\* arrived.
RegisterFind(s, id, body) ==
    /\ Free(s)
    /\ LET r == [kind |-> "event.register", id |-> id,
                 absent |-> {"userId"} \ DOMAIN body,
                 registeredBefore |->
                     /\ "userId" \in DOMAIN body
                     /\ Query(event_registrations,
                              [event_id |-> id, user_id |-> body.userId]) # {}]
       IN
       reqs' = [reqs EXCEPT ![s] =
           IF "userId" \notin DOMAIN body
                THEN Done(r, Reply(400, "User ID is required"))
           ELSE IF FindByIdThrows(events, id) THEN Done(r, Thrown("findById"))
           ELSE LET event == FindByIdData(events, id)
                    next == [userId |-> body.userId,
                             event |-> [max_attendees |-> event.max_attendees]]
                            @@ r
                IN IF ~event.is_active
                     THEN Done(next, Reply(400, "Event is not available for registration"))
                   ELSE IF event.max_attendees # NULL
                     THEN [pc |-> "event.register.count"] @@ next
                   ELSE [pc |-> "event.register.existing"] @@ next]
    /\ UNCHANGED <<users, join_applications, events, event_registrations, tasks,
                   announcements, nextId, now>>

\* The capacity comparison with > for >=.
EventIsFullStrict(currentRegistrations, event) ==
    Cardinality(currentRegistrations) > Val(event.max_attendees)

\* currentRegistrations.length >= event.max_attendees
EventIsFull(currentRegistrations, event) ==
    Cardinality(currentRegistrations) >= Val(event.max_attendees)

\* The capacity check: the query for the 'registered' rows and the comparison.
RegisterCount(s) ==
    /\ reqs[s].pc = "event.register.count"
    /\ LET r == reqs[s]
           currentRegistrations ==
               Query(event_registrations,
                     [event_id |-> r.id, status |-> "registered"])
       IN reqs' = [reqs EXCEPT ![s] =
              IF EventIsFull(currentRegistrations, r.event)
                  THEN Done(r, Reply(400, "Event is full"))
                  ELSE [r EXCEPT !.pc = "event.register.existing"]]
    /\ UNCHANGED <<users, join_applications, events, event_registrations, tasks,
                   announcements, nextId, now>>

\* The duplicate check: the query for the rows of (event, user).
RegisterExisting(s) ==
    /\ reqs[s].pc = "event.register.existing"
    /\ LET r == reqs[s]
           existingRegistration ==
               Query(event_registrations,
                     [event_id |-> r.id, user_id |-> r.userId])
       IN reqs' = [reqs EXCEPT ![s] =
              IF AlreadyRegistered(existingRegistration)
                  THEN Done(r, Reply(409, "Already registered for this event"))
                  ELSE [r EXCEPT !.pc = "event.register.insert"]]
    /\ UNCHANGED <<users, join_applications, events, event_registrations, tasks,
                   announcements, nextId, now>>

\* The insert keeping the denormalized counter of the event up to date.
RegisterInsertCounting(s) ==
    /\ reqs[s].pc = "event.register.insert"
    /\ LET r == reqs[s]
           registrationData ==
               [event_id |-> r.id, user_id |-> r.userId, status |-> "registered"]
       IN IF RegistrationInsertOk(registrationData)
          THEN /\ event_registrations' = event_registrations \cup
                     {[id |-> FreshRegistrationId] @@ registrationData}
               /\ events' = {IF e.id = r.id
                                THEN [e EXCEPT !.current_attendees = @ + 1]
                                ELSE e : e \in events}
               /\ reqs' = [reqs EXCEPT ![s] = Done(r, Reply(201, ""))]
          ELSE /\ reqs' = [reqs EXCEPT ![s] = Done(r, Thrown("insert"))]
               /\ UNCHANGED <<event_registrations, events>>
    /\ UNCHANGED <<users, join_applications, tasks, announcements,
                   nextId, now>>

\* db.insert('event_registrations', registrationData) and the response.
RegisterInsert(s) ==
    /\ reqs[s].pc = "event.register.insert"
    /\ LET r == reqs[s]
           registrationData ==
               [event_id |-> r.id, user_id |-> r.userId, status |-> "registered"]
       IN IF RegistrationInsertOk(registrationData)
          THEN /\ event_registrations' = event_registrations \cup
                     {[id |-> FreshRegistrationId] @@ registrationData}
               /\ reqs' = [reqs EXCEPT ![s] = Done(r, Reply(201, ""))]
          ELSE /\ reqs' = [reqs EXCEPT ![s] = Done(r, Thrown("insert"))]
               /\ UNCHANGED event_registrations
    /\ UNCHANGED <<users, join_applications, events, tasks, announcements,
                   nextId, now>>

(***************************************************************************)
(* The requests the model sends.                                           *)
(***************************************************************************)

\* Two provisioned users, as POST /api/users inserts them.
SomeUsers ==
    {[id |-> 1, email |-> "a@x.tn", student_id |-> "202331551801",
      role |-> "admin", is_active |-> TRUE, password_hash |-> "hash"],
     [id |-> 2, email |-> "b@x.tn", student_id |-> "S2",
      role |-> "membre", is_active |-> TRUE, password_hash |-> "hash"]}
UserIds == {1, 2}

EventIds == 1..MaxEvents

EventBase ==
    [title |-> "ok", description |-> "ok", eventDate |-> "ok",
     eventTime |-> "ok", location |-> "ok", category |-> "ok", createdBy |-> 1]

\* Bodies that break the schema: a field breaking its rule, a missing
\* required field, a number below the minimum.
EventBadBodies ==
    {[title |-> "bad"] @@ EventBase,
     [k \in DOMAIN EventBase \ {"title"} |-> EventBase[k]],
     EventBase @@ [maxAttendees |-> Some(0)]}

EventCreateBodies ==
    {EventBase @@ [maxAttendees |-> Some(1)],
     EventBase @@ [maxAttendees |-> Some(2), status |-> "active",
                   isActive |-> JBool(TRUE)],
     EventBase @@ [maxAttendees |-> NULL],
     [k \in DOMAIN EventBase \ {"createdBy"} |-> EventBase[k]]}
    \cup EventBadBodies

EventUpdateBodies ==
    {EventBase @@ [isActive |-> JBool(TRUE)],
     EventBase @@ [maxAttendees |-> Some(1)],
     EventBase @@ [maxAttendees |-> Some(2), status |-> "active"],
     EventBase @@ [maxAttendees |-> NULL, isActive |-> JBool(FALSE)],
     EventBase @@ [status |-> "published", isActive |-> JStr("true")]}
    \cup EventBadBodies

RegisterBodies == {<<>>} \cup {[userId |-> u] : u \in UserIds}

NoIds == [events |-> 0, tasks |-> 0, users |-> 0, join_applications |-> 0,
          announcements |-> 0]

InitEvents ==
    /\ users = SomeUsers
    /\ join_applications = {}
    /\ events = {}
    /\ event_registrations = {}
    /\ tasks = {}
    /\ announcements = {}
    /\ reqs = [s \in Slots |-> Idle]
    /\ nextId = [NoIds EXCEPT !.users = 2]
    /\ now = 0

NextEvents ==
    \E s \in Slots :
        \/ \E body \in EventCreateBodies : EventCreate(s, body)
        \/ \E id \in EventIds, body \in EventUpdateBodies : EventUpdateFind(s, id, body)
        \/ EventUpdateWrite(s)
        \/ \E id \in EventIds : EventDeleteFind(s, id)
        \/ EventDeleteWrite(s)
        \/ \E id \in EventIds, body \in RegisterBodies : RegisterFind(s, id, body)
        \/ RegisterCount(s)
        \/ RegisterExisting(s)
        \/ RegisterInsert(s)

SpecEvents == InitEvents /\ [][NextEvents]_vars

(***************************************************************************)
(* Properties of the event router, under SpecEvents.                       *)
(***************************************************************************)
Registered(id) ==
    Query(event_registrations, [event_id |-> id, status |-> "registered"])

RegisterInFlight(s) ==
    reqs[s].pc \in {"event.register.count", "event.register.existing",
                    "event.register.insert"}

RegisterDone(s) == reqs[s].pc = "done" /\ reqs[s].kind = "event.register"

\* C1: for every event whose max_attendees is set, the number of
\* event_registrations rows with status 'registered' for the event does not
\* exceed max_attendees.
CapacityInvariant ==
    \A e \in events :
        e.max_attendees # NULL =>
            Cardinality(Registered(e.id)) <= Val(e.max_attendees)

\* C2, as stated: every register request of a user who already had a
\* registration for the event when the request arrived is answered 409
\* (the event being there and available for registration); so is the third
\* request of register A, register B, register A on an event of capacity 1.
SecondRegisterIs409 ==
    \A s \in Slots :
        (/\ RegisterDone(s)
         /\ reqs[s].registeredBefore
         /\ reqs[s].resp.via = "route"
         /\ reqs[s].resp.error # "Event is not available for registration")
        => reqs[s].resp.status = 409

\* C2, amended: while a registration row for (event, user) exists, no step of
\* a register request of that user for that event changes
\* event_registrations; the request is answered 409 by its duplicate check,
\* and before that check only by 400 'Event is full' of the capacity check,
\* which comes first.
SecondRegisterRejected ==
    [][\A s \in Slots :
         (/\ RegisterInFlight(s)
          /\ Query(event_registrations,
                   [event_id |-> reqs[s].id, user_id |-> reqs[s].userId]) # {}
          /\ reqs'[s] # reqs[s])
         => /\ event_registrations' = event_registrations
            /\ reqs[s].pc = "event.register.existing" =>
                  /\ reqs'[s].pc = "done"
                  /\ reqs'[s].resp = Reply(409, "Already registered for this event")
            /\ (reqs[s].pc = "event.register.count" /\ reqs'[s].pc = "done") =>
                  reqs'[s].resp = Reply(400, "Event is full")
            /\ reqs'[s].pc = "done" => reqs'[s].resp.status # 201]_vars

\* A second register request of the same user was answered 409.
SecondRegisterWitness ==
    \E s \in Slots :
        /\ RegisterDone(s)
        /\ reqs[s].registeredBefore
        /\ reqs[s].resp.status = 409

\* C3: when a register request makes its capacity check while the event is
\* active, the max_attendees it read is the event's, and the count of
\* 'registered' rows equals max_attendees, the request is answered 400 and
\* event_registrations is unchanged (an answered request inserts nothing).
FullEventRejected ==
    [][\A s \in Slots :
         (/\ reqs[s].pc = "event.register.count"
          /\ reqs'[s] # reqs[s]
          /\ \E e \in events :
                /\ e.id = reqs[s].id
                /\ e.is_active
                /\ e.max_attendees = reqs[s].event.max_attendees
                /\ e.max_attendees # NULL
                /\ Cardinality(Registered(e.id)) = Val(e.max_attendees))
         => /\ reqs'[s].pc = "done"
            /\ reqs'[s].resp.status = 400
            /\ event_registrations' = event_registrations]_vars

\* A register request was answered 'Event is full' while the event was full.
FullEventWitness ==
    \E s \in Slots, e \in events :
        /\ RegisterDone(s)
        /\ reqs[s].resp = Reply(400, "Event is full")
        /\ e.id = reqs[s].id
        /\ e.is_active
        /\ e.max_attendees # NULL
        /\ Cardinality(Registered(e.id)) = Val(e.max_attendees)

\* C4: at most one event_registrations row exists per (event_id, user_id),
\* and of the register requests for one (event, user) at most one is
\* answered 201.
UniqueRegistration ==
    /\ \A r1, r2 \in event_registrations :
          (r1.event_id = r2.event_id /\ r1.user_id = r2.user_id) => r1 = r2
    /\ \A s1, s2 \in Slots :
          (/\ s1 # s2
           /\ RegisterDone(s1) /\ RegisterDone(s2)
           /\ "userId" \in DOMAIN reqs[s1] /\ "userId" \in DOMAIN reqs[s2]
           /\ reqs[s1].id = reqs[s2].id
           /\ reqs[s1].userId = reqs[s2].userId)
          => ~(reqs[s1].resp.status = 201 /\ reqs[s2].resp.status = 201)

\* Two register requests for one (event, user) both passed the duplicate
\* check: neither had a registration when it arrived, one inserted and the
\* insert of the other failed.
RacedDuplicateWitness ==
    \E s1, s2 \in Slots :
        /\ s1 # s2
        /\ RegisterDone(s1) /\ RegisterDone(s2)
        /\ "userId" \in DOMAIN reqs[s1] /\ "userId" \in DOMAIN reqs[s2]
        /\ reqs[s1].id = reqs[s2].id
        /\ reqs[s1].userId = reqs[s2].userId
        /\ ~reqs[s1].registeredBefore /\ ~reqs[s2].registeredBefore
        /\ reqs[s1].resp.status = 201
        /\ reqs[s2].resp = Thrown("insert")

\* C21: two register requests of distinct users for one event that have
\* both made their capacity check go on unhindered by each other: while the
\* user has no row for the event, the duplicate check passes and the insert
\* adds a 'registered' row and is answered 201, whatever the count of
\* 'registered' rows has become.
RacePastCapacity ==
    [][\A s1, s2 \in Slots :
         (/\ s1 # s2
          /\ reqs[s1].pc \in {"event.register.existing", "event.register.insert"}
          /\ reqs[s2].pc \in {"event.register.existing", "event.register.insert"}
          /\ reqs[s1].id = reqs[s2].id
          /\ reqs[s1].userId # reqs[s2].userId
          /\ Query(event_registrations, [event_id |-> reqs[s1].id,
                                           user_id |-> reqs[s1].userId]) = {}
          /\ \E e \in events : e.id = reqs[s1].id
          /\ reqs'[s1] # reqs[s1])
         => IF reqs[s1].pc = "event.register.existing"
               THEN reqs'[s1].pc = "event.register.insert"
               ELSE /\ reqs'[s1].pc = "done"
                    /\ reqs'[s1].resp.status = 201
                    /\ \E row \in event_registrations' \ event_registrations :
                          /\ row.event_id = reqs[s1].id
                          /\ row.user_id = reqs[s1].userId
                          /\ row.status = "registered"]_vars

\* Two requests of distinct users arrived at an active event with one free
\* place, both were answered 201 and the event holds more 'registered'
\* rows than max_attendees.
OverbookedWitness ==
    \E s1, s2 \in Slots, e \in events :
        /\ s1 # s2
        /\ RegisterDone(s1) /\ RegisterDone(s2)
        /\ reqs[s1].resp.status = 201 /\ reqs[s2].resp.status = 201
        /\ reqs[s1].id = e.id /\ reqs[s2].id = e.id
        /\ reqs[s1].userId # reqs[s2].userId
        /\ e.is_active
        /\ e.max_attendees = Some(1)
        /\ Cardinality(Registered(e.id)) = 2

\* C22: the register route decides in the order existence, active, capacity,
\* duplicate, each by the first failing check alone: a request with a userId
\* is answered 404 when the event is missing, else 400 when is_active is
\* false (whatever the status), else goes on; the capacity check answers 400
\* when the 'registered' count has reached max_attendees; the duplicate check
\* answers 409 when a row of (event, user) exists; else a 'registered' row is
\* inserted.
RegisterCheckOrder ==
    [][\A s \in Slots :
         /\ (/\ Free(s)
             /\ reqs'[s] # reqs[s]
             /\ reqs'[s].kind = "event.register"
             /\ reqs'[s].absent = {})
            => LET found == {e \in events : e.id = reqs'[s].id}
               IN IF found = {}
                    THEN /\ reqs'[s].pc = "done"
                         /\ reqs'[s].resp.status = 404
                  ELSE IF \E e \in found : ~e.is_active
                    THEN /\ reqs'[s].pc = "done"
                         /\ reqs'[s].resp.status = 400
                  ELSE reqs'[s].pc \in {"event.register.count",
                                        "event.register.existing"}
         /\ (reqs[s].pc = "event.register.count" /\ reqs'[s] # reqs[s])
            => IF Cardinality(Registered(reqs[s].id))
                      >= Val(reqs[s].event.max_attendees)
                 THEN /\ reqs'[s].pc = "done"
                      /\ reqs'[s].resp.status = 400
                 ELSE reqs'[s].pc = "event.register.existing"
         /\ (reqs[s].pc = "event.register.existing" /\ reqs'[s] # reqs[s])
            => IF \E row \in event_registrations :
                      row.event_id = reqs[s].id /\ row.user_id = reqs[s].userId
                 THEN /\ reqs'[s].pc = "done"
                      /\ reqs'[s].resp.status = 409
                 ELSE reqs'[s].pc = "event.register.insert"
         /\ (/\ reqs[s].pc = "event.register.insert"
             /\ reqs'[s] # reqs[s]
             /\ reqs'[s].resp.status = 201)
            => \E row \in event_registrations' \ event_registrations :
                   /\ row.event_id = reqs[s].id
                   /\ row.user_id = reqs[s].userId
                   /\ row.status = "registered"]_vars

\* C27: a registration answered 201 comes after a PUT /api/events/:id with
\* isActive true answered 200 for that event.  The activation date is the
\* trace of such a PUT: it is set only by the write of an update whose
\* updateData holds is_active true and which is answered 200; a register
\* request that finds the event without one is answered 400; an insert
\* answered 201 is for an event that has one.
ActivationPrecedesRegistration ==
    [][/\ \A e \in events, e2 \in events' :
            (e.id = e2.id /\ e.activation_date = NULL /\ e2.activation_date # NULL)
            => \E s \in Slots :
                 /\ reqs[s].pc = "event.update.write"
                 /\ reqs[s].id = e.id
                 /\ "is_active" \in DOMAIN reqs[s].updateData
                 /\ reqs[s].updateData.is_active
                 /\ reqs'[s].pc = "done"
                 /\ reqs'[s].resp.status = 200
       /\ \A e \in events' :
            (\A x \in events : x.id # e.id) => e.activation_date = NULL
       /\ \A s \in Slots :
            /\ (/\ Free(s)
                /\ reqs'[s] # reqs[s]
                /\ reqs'[s].kind = "event.register"
                /\ reqs'[s].absent = {}
                /\ \E e \in events :
                       e.id = reqs'[s].id /\ e.activation_date = NULL)
               => /\ reqs'[s].pc = "done"
                  /\ reqs'[s].resp.status = 400
            /\ (/\ reqs[s].pc = "event.register.insert"
                /\ reqs'[s].pc = "done"
                /\ reqs'[s].resp.status = 201)
               => \E e \in events :
                      e.id = reqs[s].id /\ e.activation_date # NULL]_vars

\* A PUT of the event was answered 200, the event is active with its
\* activation date, and a registration for it was answered 201.
RegisteredAfterActivationWitness ==
    \E s1, s2 \in Slots, e \in events :
        /\ reqs[s1].pc = "done" /\ reqs[s1].kind = "event.update"
        /\ reqs[s1].id = e.id /\ reqs[s1].resp.status = 200
        /\ RegisterDone(s2) /\ reqs[s2].id = e.id
        /\ reqs[s2].resp.status = 201
        /\ e.is_active /\ e.activation_date # NULL
        /\ Registered(e.id) # {}

\* C15: every event row POST /api/events inserts has status 'draft' and
\* is_active false, whatever status or isActive the body carries.
CreatedEventIsDraft ==
    [][\A e \in events' :
         (\A x \in events : x.id # e.id)
         => e.status = "draft" /\ ~e.is_active]_vars

\* An event was created of the body that carries status 'active' and
\* isActive true: it is the one body sent to POST /api/events with
\* maxAttendees 2, and an update that sets max_attendees to 2 sets the
\* status 'active' with it.
DraftDespiteBodyWitness ==
    \E s \in Slots, e \in events :
        /\ reqs[s].pc = "done"
        /\ reqs[s].kind = "event.create"
        /\ reqs[s].resp.status = 201
        /\ e.id = reqs[s].id
        /\ e.max_attendees = Some(2)
        /\ e.status = "draft"
        /\ ~e.is_active

(***************************************************************************)
(* Validation: joinApplicationSchema.                                      *)
(***************************************************************************)
JoinRequired ==
    {"firstName", "lastName", "email", "phone", "academicYear",
     "fieldOfStudy", "preferredDepartment", "motivation"}

JoinOptional ==
    {"telegramId", "discordId", "homeAddress", "secondaryDepartment", "skills"}

\* The strings that are an email address for Joi's .email().
ValidEmails == {"a@x.tn", "A@x.tn", "b@x.tn"}

\* String.prototype.toLowerCase / Joi's .lowercase() on the strings used.
ToLowerCase(str) == IF str = "A@x.tn" THEN "a@x.tn" ELSE str

JoinSchemaErrors(body) ==
    {f \in JoinRequired \ {"email"} : f \notin DOMAIN body \/ body[f] = "bad"}
    \cup {f \in {"email"} : f \notin DOMAIN body \/ body[f] \notin ValidEmails}
    \cup {f \in JoinOptional : f \in DOMAIN body /\ body[f] = "bad"}

\* The validated value without Joi's conversion.
JoinValueRaw(body) == body

\* The validated value: Joi converts, so value.email is in lower case.
JoinValue(body) == [body EXCEPT !.email = ToLowerCase(body.email)]

(***************************************************************************)
(* Join-application router.                                                *)
(***************************************************************************)

\* existingApplication && existingApplication.length > 0
ApplicationExists(existingApplication) == existingApplication # {}

\* The check for a user of that email never finding one.
JoinUserExistsNever(existingUser) == FALSE

\* existingUser && existingUser.length > 0
JoinUserExists(existingUser) == existingUser # {}

\* POST /api/join up to the await after its first query: validation and the
\* check for an application of that email.  takenBefore is history: whether
\* an application or a user of value.email existed when the request arrived;
\* rawEmail is history too: req.body.email as sent.
\* absent, here and in the other handlers that take a body, is history too:
\* the required fields the body lacks.
JoinSubmit(s, body) ==
    /\ Free(s)
    /\ LET r == [kind |-> "join.submit", id |-> 0,
                 absent |-> JoinRequired \ DOMAIN body] IN
       reqs' = [reqs EXCEPT ![s] =
           IF JoinSchemaErrors(body) # {}
               THEN Done(r, ValidationError(JoinSchemaErrors(body)))
           ELSE LET value == JoinValue(body)
                    existingApplication ==
                        Query(join_applications, [email |-> value.email])
                    next == [email |-> value.email,
                             rawEmail |-> body.email,
                             takenBefore |->
                                \/ Query(join_applications, [email |-> value.email]) # {}
                                \/ Query(users, [email |-> value.email]) # {}]
                            @@ r
                IN IF ApplicationExists(existingApplication)
                     THEN Done(next, Reply(409, "An application with this email already exists"))
                     ELSE [pc |-> "join.submit.user"] @@ next]
    /\ UNCHANGED <<users, join_applications, events, event_registrations, tasks,
                   announcements, nextId, now>>

\* POST /api/join: the check for a user of that email.
JoinCheckUser(s) ==
    /\ reqs[s].pc = "join.submit.user"
    /\ LET r == reqs[s]
           existingUser == Query(users, [email |-> r.email])
       IN reqs' = [reqs EXCEPT ![s] =
              IF JoinUserExists(existingUser)
                  THEN Done(r, Reply(409, "A user with this email already exists"))
                  ELSE [r EXCEPT !.pc = "join.submit.insert"]]
    /\ UNCHANGED <<users, join_applications, events, event_registrations, tasks,
                   announcements, nextId, now>>

\* The inserted join_applications row: the table has no constraint on email.
ApplicationRow(id, email) ==
    [id |-> id, email |-> email, status |-> "pending",
     reviewed_by |-> NULL, reviewed_at |-> NULL]

\* POST /api/join: db.insert('join_applications', applicationData).
JoinInsert(s) ==
    /\ reqs[s].pc = "join.submit.insert"
    /\ nextId.join_applications < MaxApplications
    /\ join_applications' = join_applications \cup
          {ApplicationRow(nextId.join_applications + 1, reqs[s].email)}
    /\ nextId' = [nextId EXCEPT !.join_applications = @ + 1]
    /\ reqs' = [reqs EXCEPT ![s] = Done(reqs[s], Reply(201, ""))]
    /\ UNCHANGED <<users, events, event_registrations, tasks, announcements, now>>

(***************************************************************************)
(* User router: provisioning and the administrator bootstrap.              *)
(***************************************************************************)

\* generateSampleUser(email, password, overrides): the overrides are spread
\* over the default profile.
GenerateSampleUser(email, overrides) ==
    overrides @@
    [email |-> ToLowerCase(email), student_id |-> "202331551801",
     role |-> "admin", is_active |-> TRUE]

\* The table without its unique constraints.
UserInsertOkNoUnique(data) == TRUE

\* users: email UNIQUE, student_id UNIQUE.
UserInsertOk(data) ==
    /\ Query(users, [email |-> data.email]) = {}
    /\ Query(users, [student_id |-> data.student_id]) = {}

\* POST /api/users up to the await after its query: the guard on email and
\* password and the check for a user of that email.  userData is the body
\* without email and password.
UserCreateCheck(s, body) ==
    /\ Free(s)
    /\ LET r == [kind |-> "user.create", id |-> 0,
                 absent |-> {"email", "password"} \ DOMAIN body] IN
       reqs' = [reqs EXCEPT ![s] =
           IF "email" \notin DOMAIN body \/ "password" \notin DOMAIN body
               THEN Done(r, Reply(400, "Email and password are required"))
           ELSE IF Query(users, [email |-> ToLowerCase(body.email)]) # {}
               THEN Done(r, Reply(409, "User with this email already exists"))
           ELSE LET userData ==
                        [k \in DOMAIN body \ {"email", "password"} |-> body[k]]
                IN [pc |-> "user.create.insert",
                    finalUserData |->
                        GenerateSampleUser(body.email, userData)
                        @@ [password_hash |-> "hash"]] @@ r]
    /\ UNCHANGED <<users, join_applications, events, event_registrations, tasks,
                   announcements, nextId, now>>

\* db.insert('users', data) and the response, for both user routes.
UserInsert(s, data) ==
    /\ IF UserInsertOk(data)
       THEN /\ nextId.users < MaxUsers
            /\ users' = users \cup {[id |-> nextId.users + 1] @@ data}
            /\ nextId' = [nextId EXCEPT !.users = @ + 1]
            /\ reqs' = [reqs EXCEPT ![s] = Done(reqs[s], Reply(201, ""))]
       ELSE /\ reqs' = [reqs EXCEPT ![s] = Done(reqs[s], Thrown("insert"))]
            /\ UNCHANGED <<users, nextId>>
    /\ UNCHANGED <<join_applications, events, event_registrations, tasks,
                   announcements, now>>

\* POST /api/users: hashPassword, then the insert.
UserCreateInsert(s) ==
    /\ reqs[s].pc = "user.create.insert"
    /\ UserInsert(s, reqs[s].finalUserData)

AdminEmail == "adembenabdi@gmail.com"

\* adminUserData of POST /api/users/create-admin.
AdminUserData ==
    [email |-> AdminEmail, password_hash |-> "hash",
     student_id |-> "202331551801", role |-> "admin", is_active |-> TRUE]

\* POST /api/users/create-admin up to the await after its query.
AdminCheck(s) ==
    /\ Free(s)
    /\ LET r == [kind |-> "user.create-admin", id |-> 0] IN
       reqs' = [reqs EXCEPT ![s] =
           IF Query(users, [email |-> AdminEmail]) # {}
               THEN Done(r, Reply(409, "Admin user already exists"))
               ELSE [pc |-> "user.create-admin.insert"] @@ r]
    /\ UNCHANGED <<users, join_applications, events, event_registrations, tasks,
                   announcements, nextId, now>>

\* POST /api/users/create-admin: hashPassword, then the insert.
AdminInsert(s) ==
    /\ reqs[s].pc = "user.create-admin.insert"
    /\ UserInsert(s, AdminUserData)

JoinBase ==
    [firstName |-> "ok", lastName |-> "ok", phone |-> "ok",
     academicYear |-> "ok", fieldOfStudy |-> "ok",
     preferredDepartment |-> "ok", motivation |-> "ok"]

JoinBodies ==
    {JoinBase @@ [email |-> e] : e \in ValidEmails \cup {"not an email"}}
    \cup {JoinBase, [motivation |-> "bad"] @@ JoinBase @@ [email |-> "a@x.tn"]}

UserBodies ==
    {[email |-> "a@x.tn", password |-> "pw"],
     [email |-> "A@x.tn", password |-> "pw", student_id |-> "S2"],
     [email |-> "b@x.tn", password |-> "pw", student_id |-> "S2",
      role |-> "membre"],
     [email |-> "b@x.tn"]}

InitJoin ==
    /\ users = {}
    /\ join_applications = {}
    /\ events = {}
    /\ event_registrations = {}
    /\ tasks = {}
    /\ announcements = {}
    /\ reqs = [s \in Slots |-> Idle]
    /\ nextId = NoIds
    /\ now = 0

NextJoin ==
    \E s \in Slots :
        \/ \E body \in JoinBodies : JoinSubmit(s, body)
        \/ JoinCheckUser(s)
        \/ JoinInsert(s)
        \/ \E body \in UserBodies : UserCreateCheck(s, body)
        \/ UserCreateInsert(s)
        \/ AdminCheck(s)
        \/ AdminInsert(s)

SpecJoin == InitJoin /\ [][NextJoin]_vars

(***************************************************************************)
(* Properties of the join-application and user routers, under SpecJoin.    *)
(***************************************************************************)
JoinRequest(s) == reqs[s].pc # "idle" /\ reqs[s].kind = "join.submit"

\* C5: a POST /api/join whose body passes validation and whose email is the
\* email of a join application or of a user present when the request
\* arrives is answered 409 and never gets to its insert.
TakenEmailRejected ==
    \A s \in Slots :
        (JoinRequest(s) /\ "takenBefore" \in DOMAIN reqs[s] /\ reqs[s].takenBefore)
        => /\ reqs[s].pc # "join.submit.insert"
           /\ reqs[s].pc = "done" => reqs[s].resp.status = 409

\* A join application with the email of an existing user, and none of an
\* existing application, was answered 409.
TakenEmailWitness ==
    \E s \in Slots :
        /\ JoinRequest(s)
        /\ reqs[s].pc = "done"
        /\ "takenBefore" \in DOMAIN reqs[s] /\ reqs[s].takenBefore
        /\ reqs[s].resp = Reply(409, "A user with this email already exists")
        /\ join_applications = {}

\* Two email strings that are equal letter case aside, told letter by letter
\* for the addresses the requests use.
SameLetters(a, b) ==
    \/ a = b
    \/ {a, b} = {"a@x.tn", "A@x.tn"}

JoinArrives(s) ==
    /\ Free(s)
    /\ reqs'[s] # reqs[s]
    /\ reqs'[s].kind = "join.submit"
    /\ "rawEmail" \in DOMAIN reqs'[s]

\* C23 as stated: a valid POST /api/join whose email differs only in letter
\* case from the email of an existing application is not rejected as a
\* duplicate.
CaseVariantAccepted ==
    [][\A s \in Slots :
         (/\ JoinArrives(s)
          /\ \E a \in join_applications :
                 /\ a.email # reqs'[s].rawEmail
                 /\ SameLetters(a.email, reqs'[s].rawEmail))
         => ~(reqs'[s].pc = "done" /\ reqs'[s].resp.status = 409)]_vars

\* C23 amended: the two existence checks of POST /api/join compare the
\* email in lower case: a valid request is answered 409 by the first check
\* exactly when an application has its email letter case aside, and by the
\* second check exactly when a user has; either way nothing is inserted.
CaseVariantRejected ==
    [][\A s \in Slots :
         /\ JoinArrives(s)
            => /\ (reqs'[s].pc = "done" /\ reqs'[s].resp.status = 409)
                  <=> \E a \in join_applications :
                          SameLetters(a.email, reqs'[s].rawEmail)
               /\ join_applications' = join_applications
         /\ (reqs[s].pc = "join.submit.user" /\ reqs'[s] # reqs[s])
            => /\ (reqs'[s].pc = "done" /\ reqs'[s].resp.status = 409)
                  <=> \E u \in users : SameLetters(u.email, reqs[s].rawEmail)
               /\ join_applications' = join_applications]_vars

\* An application sent with "A@x.tn" while one of "a@x.tn" was stored was
\* answered 409 and one row of that email is stored.
CaseVariantWitness ==
    \E s \in Slots :
        /\ JoinRequest(s)
        /\ reqs[s].pc = "done"
        /\ "rawEmail" \in DOMAIN reqs[s]
        /\ reqs[s].rawEmail = "A@x.tn"
        /\ reqs[s].resp = Reply(409, "An application with this email already exists")
        /\ {a.email : a \in join_applications} = {"a@x.tn"}
        /\ Cardinality(join_applications) = 1

\* C6: at most one join_applications row exists per email and at most one
\* users row exists per email.
OneRowPerEmail ==
    /\ \A a1, a2 \in join_applications : a1.email = a2.email => a1 = a2
    /\ \A u1, u2 \in users : u1.email = u2.email => u1 = u2

\* C11: a request to a write endpoint whose body lacks a required field is
\* answered 400 with a details list that has an entry for each such field.
MissingFieldNamed ==
    \A s \in Slots :
        (reqs[s].pc = "done" /\ "absent" \in DOMAIN reqs[s] /\ reqs[s].absent # {})
        => /\ reqs[s].resp.status = 400
           /\ "details" \in DOMAIN reqs[s].resp
           /\ reqs[s].absent \subseteq reqs[s].resp.details

AdminRows(table) == Query(table, [email |-> AdminEmail])

\* C19: a POST /api/users/create-admin that finds a user of the hardcoded
\* email is answered 409 and writes nothing; one that inserts found none,
\* and inserts one row of that email; at most one users row of that email
\* exists, however the calls are interleaved.
AdminOnlyOnce ==
    [][/\ \A s \in Slots :
            /\ (/\ Free(s)
                /\ reqs'[s] # reqs[s]
                /\ reqs'[s].kind = "user.create-admin"
                /\ AdminRows(users) # {})
               => /\ reqs'[s].pc = "done"
                  /\ reqs'[s].resp.status = 409
                  /\ users' = users
            /\ (reqs[s].pc = "user.create-admin.insert" /\ reqs'[s] # reqs[s])
               => /\ reqs'[s].pc = "done"
                  /\ IF AdminRows(users) = {} /\ reqs'[s].resp.status = 201
                        THEN \E row \in AdminRows(users') : users' = users \cup {row}
                        ELSE users' = users /\ reqs'[s].resp.status # 201
       /\ Cardinality(AdminRows(users')) <= 1]_vars

\* Two interleaved calls both found no administrator: one inserted it, the
\* insert of the other failed, and one row of the email exists.
AdminRaceWitness ==
    \E s1, s2 \in Slots :
        /\ reqs[s1].pc = "done" /\ reqs[s1].kind = "user.create-admin"
        /\ reqs[s2].pc = "done" /\ reqs[s2].kind = "user.create-admin"
        /\ reqs[s1].resp.status = 201
        /\ reqs[s2].resp = Thrown("insert")
        /\ Cardinality(AdminRows(users)) = 1

(***************************************************************************)
(* Task router.                                                            *)
(***************************************************************************)
TaskRequired == {"title", "description", "assignedTo"}

\* taskSchema.validate: title and description are strings, assignedTo is a
\* uuid, here the id of a user.
TaskSchemaErrors(body) ==
    {f \in TaskRequired : f \notin DOMAIN body}
    \cup {f \in {"title", "description"} : f \in DOMAIN body /\ body[f] = "bad"}

\* tasks: assigned_by and assigned_to REFERENCES users(id) NOT NULL.
TaskInsertOk(data) == UserExists(data.assigned_by) /\ UserExists(data.assigned_to)

\* taskData taking status from the body.
TaskDataOfBody(body) ==
    [title |-> body.title,
     priority |-> IF "priority" \in DOMAIN body THEN body.priority ELSE "medium",
     assigned_by |-> IF "assignedBy" \in DOMAIN body THEN body.assignedBy ELSE 0,
     assigned_to |-> body.assignedTo,
     status |-> IF "status" \in DOMAIN body THEN body.status ELSE "pending",
     progress |-> 0]

\* taskData of POST /api/tasks; priority defaults to 'medium' in the schema.
TaskData(body) ==
    [title |-> body.title,
     priority |-> IF "priority" \in DOMAIN body THEN body.priority ELSE "medium",
     assigned_by |-> IF "assignedBy" \in DOMAIN body THEN body.assignedBy ELSE 0,
     assigned_to |-> body.assignedTo,
     status |-> "pending",
     progress |-> 0]

\* The inserted row: completed_at has no default.
TaskRow(id, data) ==
    [id |-> id, title |-> data.title, status |-> data.status,
     priority |-> data.priority, progress |-> data.progress,
     completed_at |-> NULL]

\* POST /api/tasks
TaskCreate(s, body) ==
    /\ Free(s)
    /\ LET r == [kind |-> "task.create", id |-> nextId.tasks + 1,
                 absent |-> TaskRequired \ DOMAIN body] IN
       IF TaskSchemaErrors(body) # {}
       THEN /\ reqs' = [reqs EXCEPT ![s] = Done(r, ValidationError(TaskSchemaErrors(body)))]
            /\ UNCHANGED <<tasks, nextId>>
       ELSE IF ~TaskInsertOk(TaskData(body))
       THEN /\ reqs' = [reqs EXCEPT ![s] = Done(r, Thrown("insert"))]
            /\ UNCHANGED <<tasks, nextId>>
       ELSE /\ nextId.tasks < MaxTasks
            /\ tasks' = tasks \cup {TaskRow(nextId.tasks + 1, TaskData(body))}
            /\ nextId' = [nextId EXCEPT !.tasks = @ + 1]
            /\ reqs' = [reqs EXCEPT ![s] = Done(r, Reply(201, ""))]
    /\ UNCHANGED <<users, join_applications, events, event_registrations,
                   announcements, now>>

\* parseInt of the strings used: the empty set is NaN.
ParseInt(str) ==
    CASE str = "0" -> Some(0)
      [] str = "1" -> Some(1)
      [] str = "2" -> Some(2)
      [] str = "3" -> Some(3)
      [] str = "10" -> Some(10)
      [] str = "50" -> Some(50)
      [] str = "100" -> Some(100)
      [] str = "150" -> Some(150)
      [] OTHER -> NULL

TaskStatuses == {"pending", "in-progress", "completed"}
TaskPriorities == {"low", "medium", "high"}

\* The keys the progress branch adds to updateData.
TaskProgressData(body, existingTask) ==
    IF "progress" \notin DOMAIN body THEN <<>>
    ELSE LET progress == ParseInt(body.progress) IN
         IF progress # NULL /\ Val(progress) >= 0 /\ Val(progress) <= 100
         THEN (IF Val(progress) = 100 /\ existingTask.status # "completed"
                   THEN [status |-> "completed", completed_at |-> Some(now)]
                   ELSE <<>>)
              @@ [progress |-> Val(progress)]
         ELSE <<>>

\* The status branch writing status 'completed' without completed_at.
TaskStatusDataNoStamp(body) ==
    IF "status" \in DOMAIN body /\ body.status \in TaskStatuses
    THEN [status |-> body.status]
         @@ (IF body.status = "completed" THEN [progress |-> 100] ELSE <<>>)
    ELSE <<>>

\* The keys the status branch adds to updateData.
TaskStatusData(body) ==
    IF "status" \in DOMAIN body /\ body.status \in TaskStatuses
    THEN [status |-> body.status]
         @@ (IF body.status = "completed"
                 THEN [completed_at |-> Some(now), progress |-> 100]
                 ELSE <<>>)
    ELSE <<>>

\* updateData of PUT /api/tasks/:id: a later assignment to a key replaces an
\* earlier one.
TaskUpdateData(body, existingTask) ==
    TaskProgressData(body, existingTask)
    @@ (IF "priority" \in DOMAIN body /\ body.priority \in TaskPriorities
            THEN [priority |-> body.priority] ELSE <<>>)
    @@ TaskStatusData(body)
    @@ (IF "title" \in DOMAIN body THEN [title |-> body.title] ELSE <<>>)

\* PUT /api/tasks/:id up to its second await: findById and updateData.
TaskUpdateFind(s, id, body) ==
    /\ Free(s)
    /\ LET r == [kind |-> "task.update", id |-> id,
                 missing |-> Query(tasks, [id |-> id]) = {}] IN
       reqs' = [reqs EXCEPT ![s] =
           IF FindByIdThrows(tasks, id) THEN Done(r, Thrown("findById"))
           ELSE [pc |-> "task.update.write", body |-> body,
                 updateData |-> TaskUpdateData(body, FindByIdData(tasks, id))]
                @@ r]
    /\ UNCHANGED <<users, join_applications, events, event_registrations, tasks,
                   announcements, nextId, now>>

\* PUT /api/tasks/:id: db.update and the response.
TaskUpdateWrite(s) ==
    /\ reqs[s].pc = "task.update.write"
    /\ LET r == reqs[s] IN
       /\ tasks' = UpdateRows(tasks, r.id, r.updateData)
       /\ reqs' = [reqs EXCEPT ![s] =
            IF UpdateResult(tasks, r.id, r.updateData) = {}
                THEN Done(r, Thrown("Failed to update task"))
                ELSE Done(r, Reply(200, ""))]
    /\ UNCHANGED <<users, join_applications, events, event_registrations,
                   announcements, nextId, now>>

\* GET /api/tasks/:id
TaskGet(s, id) ==
    /\ Free(s)
    /\ LET r == [kind |-> "task.get", id |-> id,
                 missing |-> Query(tasks, [id |-> id]) = {}] IN
       reqs' = [reqs EXCEPT ![s] =
           IF FindByIdThrows(tasks, id) THEN Done(r, Thrown("findById"))
           ELSE Done(r, Reply(200, ""))]
    /\ UNCHANGED <<users, join_applications, events, event_registrations, tasks,
                   announcements, nextId, now>>

\* DELETE /api/tasks/:id up to its second await.
TaskDeleteFind(s, id) ==
    /\ Free(s)
    /\ LET r == [kind |-> "task.delete", id |-> id,
                 missing |-> Query(tasks, [id |-> id]) = {}] IN
       reqs' = [reqs EXCEPT ![s] =
           IF FindByIdThrows(tasks, id) THEN Done(r, Thrown("findById"))
           ELSE [pc |-> "task.delete.write"] @@ r]
    /\ UNCHANGED <<users, join_applications, events, event_registrations, tasks,
                   announcements, nextId, now>>

\* DELETE /api/tasks/:id: db.delete and the response.
TaskDeleteWrite(s) ==
    /\ reqs[s].pc = "task.delete.write"
    /\ tasks' = DeleteRows(tasks, reqs[s].id)
    /\ reqs' = [reqs EXCEPT ![s] = Done(reqs[s], Reply(200, ""))]
    /\ UNCHANGED <<users, join_applications, events, event_registrations,
                   announcements, nextId, now>>

\* Time passes.
Tick ==
    /\ now < MaxTime
    /\ now' = now + 1
    /\ UNCHANGED <<users, join_applications, events, event_registrations, tasks,
                   announcements, reqs, nextId>>

TaskIds == 1..MaxTasks

TaskCreateBodies ==
    {[title |-> "t0", description |-> "ok", assignedTo |-> 2, assignedBy |-> 1,
      status |-> "completed", progress |-> "100"],
     [title |-> "t0", description |-> "ok", assignedTo |-> 2],
     [title |-> "t0", description |-> "bad", assignedTo |-> 2, assignedBy |-> 1],
     [title |-> "t0", description |-> "ok", assignedBy |-> 1]}

TaskUpdateBodies ==
    {<<>>,
     [progress |-> "100"],
     [progress |-> "50"],
     [progress |-> "150"],
     [progress |-> "abc"],
     [status |-> "completed"],
     [status |-> "completed", progress |-> "50"],
     [status |-> "in-progress", progress |-> "100"],
     [status |-> "pending"],
     [status |-> "done"],
     [title |-> "t1", priority |-> "high"]}

InitTasks ==
    /\ users = SomeUsers
    /\ join_applications = {}
    /\ events = {}
    /\ event_registrations = {}
    /\ tasks = {}
    /\ announcements = {}
    /\ reqs = [s \in Slots |-> Idle]
    /\ nextId = [NoIds EXCEPT !.users = 2]
    /\ now = 0

NextTasks ==
    \/ Tick
    \/ \E s \in Slots :
        \/ \E body \in TaskCreateBodies : TaskCreate(s, body)
        \/ \E id \in TaskIds, body \in TaskUpdateBodies : TaskUpdateFind(s, id, body)
        \/ TaskUpdateWrite(s)
        \/ \E id \in TaskIds : TaskGet(s, id)
        \/ \E id \in TaskIds : TaskDeleteFind(s, id)
        \/ TaskDeleteWrite(s)

SpecTasks == InitTasks /\ [][NextTasks]_vars

(***************************************************************************)
(* Properties of the task router, under SpecTasks.                         *)
(***************************************************************************)

\* A PUT /api/tasks/:id in slot s is answered 200 by this step.
TaskUpdated(s) ==
    /\ reqs[s].pc = "task.update.write"
    /\ reqs'[s].pc = "done"
    /\ reqs'[s].resp.status = 200

\* C7: after a PUT /api/tasks/:id whose body sets progress to 100 the task
\* has status 'completed' and a non-null completed_at.
Progress100Completes ==
    [][\A s \in Slots :
         (/\ TaskUpdated(s)
          /\ "progress" \in DOMAIN reqs[s].body
          /\ ParseInt(reqs[s].body.progress) = Some(100))
         => \A t \in tasks' :
              t.id = reqs[s].id =>
                 t.status = "completed" /\ t.completed_at # NULL]_vars

\* C25: a task whose status is 'completed' has a non-null completed_at, and
\* an updateData that holds status 'completed' holds completed_at as well.
CompletedHasStamp ==
    /\ \A t \in tasks : t.status = "completed" => t.completed_at # NULL
    /\ \A s \in Slots :
          (/\ reqs[s].pc = "task.update.write"
           /\ "status" \in DOMAIN reqs[s].updateData
           /\ reqs[s].updateData.status = "completed")
          => /\ "completed_at" \in DOMAIN reqs[s].updateData
             /\ reqs[s].updateData.completed_at # NULL

\* A PUT with status 'completed' was answered 200 and the task is stored
\* completed with its stamp.
CompletedStampWitness ==
    \E s \in Slots, t \in tasks :
        /\ reqs[s].pc = "done"
        /\ reqs[s].kind = "task.update"
        /\ reqs[s].resp.status = 200
        /\ t.id = reqs[s].id
        /\ t.status = "completed"
        /\ t.completed_at # NULL

\* C8: after a PUT /api/tasks/:id whose body sets status to 'completed' the
\* task has progress 100 and the completed_at the request stamped.
CompletedSetsProgress ==
    [][\A s \in Slots :
         (/\ TaskUpdated(s)
          /\ "status" \in DOMAIN reqs[s].body
          /\ reqs[s].body.status = "completed")
         => \A t \in tasks' :
              t.id = reqs[s].id =>
                 /\ t.progress = 100
                 /\ t.completed_at # NULL
                 /\ t.completed_at = reqs[s].updateData.completed_at]_vars

\* C9: a task has progress 100 if and only if its status is 'completed'.
ProgressIffCompleted ==
    \A t \in tasks : (t.progress = 100) <=> (t.status = "completed")

\* C10: a GET, PUT or DELETE on /:id whose id was the id of no row when the
\* request arrived is answered 404 by the route, findById having reported
\* the absent row as not found and not by an error.
UnknownIdIs404 ==
    \A s \in Slots :
        (reqs[s].pc = "done" /\ "missing" \in DOMAIN reqs[s] /\ reqs[s].missing)
        => reqs[s].resp.status = 404 /\ reqs[s].resp.via = "route"

(***************************************************************************)
(* The list endpoints: GET /api/join, GET /api/events, GET /api/users.     *)
(* A query string is a record of strings; a row of `data` is represented   *)
(* by its id.                                                              *)
(***************************************************************************)

\* query.order(column, {ascending}): the rows as a sequence.
RECURSIVE OrderBy(_, _, _)
OrderBy(rows, column, ascending) ==
    IF rows = {} THEN <<>>
    ELSE LET first == CHOOSE r \in rows : \A q \in rows :
                          IF ascending THEN r[column] <= q[column]
                                       ELSE r[column] >= q[column]
         IN <<first>> \o OrderBy(rows \ {first}, column, ascending)

\* Array.prototype.slice(start, end) for 0 <= start: the elements of index
\* start up to, not including, end; indices count from 0.
SliceFromOne(array, start, end) ==
    SubSeq(array, start + 2, IF end + 1 < Len(array) THEN end + 1 ELSE Len(array))

Slice(array, start, end) ==
    SubSeq(array, start + 1, IF end < Len(array) THEN end ELSE Len(array))

\* The number a string operand of - * / is converted to.  On the decimal
\* numerals the requests carry it is the number parseInt gives.
ToNumber(str) == Val(ParseInt(str))

\* const { page = 1, limit = 10 } = req.query, as the arithmetic reads them.
PageOf(query) == IF "page" \in DOMAIN query THEN ToNumber(query.page) ELSE 1
LimitOf(query) == IF "limit" \in DOMAIN query THEN ToNumber(query.limit) ELSE 10

\* Math.ceil(a / b) for a >= 0 and b > 0.
Ceil(a, b) == (a + b - 1) \div b

Ids(rows) == [i \in 1..Len(rows) |-> rows[i].id]

\* The pagination block with hasNext as endIndex <= length.
PaginationInclusive(query, length) ==
    [currentPage |-> PageOf(query),
     totalPages |-> Ceil(length, LimitOf(query)),
     hasNext |-> PageOf(query) * LimitOf(query) <= length,
     hasPrev |-> (PageOf(query) - 1) * LimitOf(query) > 0]

\* The pagination block of the join and event lists.
Pagination(query, length) ==
    [currentPage |-> PageOf(query),
     totalPages |-> Ceil(length, LimitOf(query)),
     hasNext |-> PageOf(query) * LimitOf(query) < length,
     hasPrev |-> (PageOf(query) - 1) * LimitOf(query) > 0]

\* startIndex, endIndex and the slice, for the numbers page and limit.
PageSlice(rows, page, limit) ==
    Slice(rows, (page - 1) * limit, page * limit)

\* The page of a list.
Paginated(rows, query) == PageSlice(rows, PageOf(query), LimitOf(query))

ApplicationStatuses == {"pending", "approved", "rejected"}

\* GET /api/join
JoinList(s, query) ==
    /\ Free(s)
    /\ LET r == [kind |-> "join.list", id |-> 0, query |-> query]
           where == IF "status" \in DOMAIN query
                       /\ query.status \in ApplicationStatuses
                    THEN [status |-> query.status] ELSE <<>>
           applications ==
               OrderBy(Query(join_applications, where), "created_at", FALSE)
           paginatedApplications == Paginated(applications, query)
       IN reqs' = [reqs EXCEPT ![s] = Done(r,
              Reply(200, "")
              @@ [count |-> Len(paginatedApplications),
                  total |-> Len(applications),
                  pagination |-> Pagination(query, Len(applications)),
                  data |-> Ids(paginatedApplications)])]
    /\ UNCHANGED <<users, join_applications, events, event_registrations, tasks,
                   announcements, nextId, now>>

\* GET /api/events
EventList(s, query) ==
    /\ Free(s)
    /\ LET r == [kind |-> "event.list", id |-> 0, query |-> query]
           whereConditions ==
               (IF "active" \in DOMAIN query /\ query.active = "true"
                    THEN [is_active |-> TRUE] ELSE <<>>)
               @@ (IF "status" \in DOMAIN query /\ query.status \in EventStatuses
                    THEN [status |-> query.status] ELSE <<>>)
           found == OrderBy(Query(events, whereConditions), "event_date", TRUE)
           filtered ==
               IF "upcoming" \in DOMAIN query /\ query.upcoming = "true"
               THEN SelectSeq(found, LAMBDA event : event.event_date > now)
               ELSE found
           paginatedEvents == Paginated(filtered, query)
       IN reqs' = [reqs EXCEPT ![s] = Done(r,
              Reply(200, "")
              @@ [count |-> Len(paginatedEvents),
                  total |-> Len(filtered),
                  pagination |-> Pagination(query, Len(filtered)),
                  data |-> Ids(paginatedEvents),
                  currentAttendees |->
                      [i \in 1..Len(paginatedEvents) |->
                          paginatedEvents[i].current_attendees]])]
    /\ UNCHANGED <<users, join_applications, events, event_registrations, tasks,
                   announcements, nextId, now>>

UserRoles == {"admin", "chef_departement", "membre"}

\* GET /api/users: the response has no pagination block.
UserList(s, query) ==
    /\ Free(s)
    /\ LET r == [kind |-> "user.list", id |-> 0, query |-> query]
           whereConditions ==
               (IF "role" \in DOMAIN query /\ query.role \in UserRoles
                    THEN [role |-> query.role] ELSE <<>>)
               @@ (IF "active" \in DOMAIN query
                    THEN [is_active |-> query.active = "true"] ELSE <<>>)
           found == OrderBy(Query(users, whereConditions), "created_at", FALSE)
           paginatedUsers == Paginated(found, query)
       IN reqs' = [reqs EXCEPT ![s] = Done(r,
              Reply(200, "")
              @@ [count |-> Len(paginatedUsers),
                  total |-> Len(found),
                  data |-> Ids(paginatedUsers)])]
    /\ UNCHANGED <<users, join_applications, events, event_registrations, tasks,
                   announcements, nextId, now>>

\* The rows the lists are taken of: n applications and n events inserted
\* one per unit of time, every third application approved, every second
\* event activated, the event dates spread around the clock.
Email(i) == "u" \o ToString(i) \o "@x.tn"

ListApplications(n) ==
    {[created_at |-> i]
     @@ [ApplicationRow(i, Email(i)) EXCEPT
            !.status = IF i % 3 = 0 THEN "approved" ELSE "pending"] :
        i \in 1..n}

ListEvents(n) ==
    {[event_date |-> i - 2]
     @@ [EventRow(i, [created_by |-> 1]) EXCEPT !.is_active = (i % 2 = 0)] :
        i \in 1..n}

ListUsers == {[created_at |-> u.id] @@ u : u \in SomeUsers}

PageQueries ==
    {<<>>, [page |-> "2"], [limit |-> "2"], [page |-> "1", limit |-> "10"],
     [page |-> "2", limit |-> "10"], [page |-> "3", limit |-> "2"],
     [page |-> "2", limit |-> "1"], [page |-> "3", limit |-> "3"]}

JoinListQueries ==
    PageQueries \cup {[status |-> "pending", page |-> "2", limit |-> "3"],
                      [status |-> "unknown"]}

EventListQueries ==
    PageQueries \cup {[active |-> "true", upcoming |-> "true", limit |-> "2"],
                      [upcoming |-> "true", page |-> "2", limit |-> "3"]}

UserListQueries ==
    {<<>>, [page |-> "2", limit |-> "1"], [role |-> "membre"],
     [active |-> "false"]}

InitList ==
    /\ users = ListUsers
    /\ \E n \in 0..MaxRows :
          /\ join_applications = ListApplications(n)
          /\ events = ListEvents(n)
          /\ nextId = [NoIds EXCEPT !.users = 2, !.join_applications = n,
                                    !.events = n]
    /\ event_registrations = {}
    /\ tasks = {}
    /\ announcements = {}
    /\ reqs = [s \in Slots |-> Idle]
    /\ now = 0

NextList ==
    \E s \in Slots :
        \/ \E query \in JoinListQueries : JoinList(s, query)
        \/ \E query \in EventListQueries : EventList(s, query)
        \/ \E query \in UserListQueries : UserList(s, query)

SpecList == InitList /\ [][NextList]_vars

(***************************************************************************)
(* Properties of the list endpoints, under SpecList.                       *)
(***************************************************************************)
ListDone(s) ==
    reqs[s].pc = "done"
    /\ reqs[s].kind \in {"join.list", "event.list", "user.list"}

\* The rows a list request asks for: the table under the filters of the
\* query string.
ListFiltered(s) ==
    LET q == reqs[s].query IN
    CASE reqs[s].kind = "join.list" ->
           {a \in join_applications :
               ("status" \in DOMAIN q /\ q.status \in ApplicationStatuses)
                   => a.status = q.status}
      [] reqs[s].kind = "event.list" ->
           {e \in events :
               /\ ("active" \in DOMAIN q /\ q.active = "true") => e.is_active
               /\ ("upcoming" \in DOMAIN q /\ q.upcoming = "true")
                     => e.event_date > now}
      [] reqs[s].kind = "user.list" ->
           {u \in users :
               /\ ("role" \in DOMAIN q /\ q.role \in UserRoles) => u.role = q.role
               /\ "active" \in DOMAIN q => (u.is_active <=> q.active = "true")}

\* The position, from 1, of a row in the ordered result: applications and
\* users come latest first, events earliest first.
ListRank(s, row) ==
    1 + Cardinality({x \in ListFiltered(s) :
            IF reqs[s].kind = "event.list"
                THEN x.event_date < row.event_date
                ELSE x.created_at > row.created_at})

\* C12: for page >= 1 and limit >= 1 (1 and 10 when omitted) the data of a
\* list response is items (page-1)*limit+1 through page*limit of the full
\* filtered, ordered result, total is the size of that result, and the
\* totalPages of the pagination block is ceil(total/limit).
PageIsSlice ==
    \A s \in Slots : ListDone(s) =>
        LET q == reqs[s].query
            resp == reqs[s].resp
            page == IF "page" \in DOMAIN q THEN Val(ParseInt(q.page)) ELSE 1
            limit == IF "limit" \in DOMAIN q THEN Val(ParseInt(q.limit)) ELSE 10
            items == ((page - 1) * limit + 1)..(page * limit)
        IN /\ resp.total = Cardinality(ListFiltered(s))
           /\ Len(resp.data) =
                 Cardinality({row \in ListFiltered(s) : ListRank(s, row) \in items})
           /\ \A i \in 1..Len(resp.data) :
                 \E row \in ListFiltered(s) :
                     /\ row.id = resp.data[i]
                     /\ ListRank(s, row) = (page - 1) * limit + i
           /\ "pagination" \in DOMAIN resp =>
                 /\ resp.pagination.totalPages * limit >= resp.total
                 /\ (resp.pagination.totalPages - 1) * limit < resp.total

\* GET /api/join?page=2&limit=10 returned the 11th item and the ones after.
SecondPageWitness ==
    \E s \in Slots :
        /\ ListDone(s)
        /\ reqs[s].kind = "join.list"
        /\ reqs[s].query = [page |-> "2", limit |-> "10"]
        /\ reqs[s].resp.total > 11
        /\ reqs[s].resp.count = reqs[s].resp.total - 10
        /\ reqs[s].resp.pagination.totalPages = 2

\* Pages p..last of a sequence, one after the other.
RECURSIVE ConcatPages(_, _, _, _)
ConcatPages(rows, limit, p, last) ==
    IF p > last THEN <<>>
    ELSE PageSlice(rows, p, limit) \o ConcatPages(rows, limit, p + 1, last)

Min(a, b) == IF a < b THEN a ELSE b
Max(a, b) == IF a > b THEN a ELSE b

\* C29: list pagination is self-consistent: count is
\* min(limit, max(0, total - (page-1)*limit)), hasNext holds exactly when
\* currentPage < totalPages, hasPrev exactly when currentPage > 1, the data
\* are the page of the full ordered result, and pages 1..totalPages of that
\* result, one after the other, are the full ordered result.
PaginationConsistent ==
    \A s \in Slots : (ListDone(s) /\ "pagination" \in DOMAIN reqs[s].resp) =>
        LET q == reqs[s].query
            resp == reqs[s].resp
            page == IF "page" \in DOMAIN q THEN Val(ParseInt(q.page)) ELSE 1
            limit == IF "limit" \in DOMAIN q THEN Val(ParseInt(q.limit)) ELSE 10
            full == [i \in 1..resp.total |->
                        (CHOOSE row \in ListFiltered(s) : ListRank(s, row) = i).id]
        IN /\ resp.count = Min(limit, Max(0, resp.total - (page - 1) * limit))
           /\ resp.pagination.currentPage = page
           /\ resp.pagination.hasNext
                 <=> resp.pagination.currentPage < resp.pagination.totalPages
           /\ resp.pagination.hasPrev <=> resp.pagination.currentPage > 1
           /\ resp.data = PageSlice(full, page, limit)
           /\ ConcatPages(full, limit, 1, resp.pagination.totalPages) = full

\* A middle page: GET /api/join?page=2&limit=1 over three rows or more
\* returned one item, with hasNext and hasPrev.
MiddlePageWitness ==
    \E s \in Slots :
        /\ ListDone(s)
        /\ reqs[s].kind = "join.list"
        /\ reqs[s].query = [page |-> "2", limit |-> "1"]
        /\ reqs[s].resp.total >= 3
        /\ reqs[s].resp.count = 1
        /\ reqs[s].resp.pagination.hasNext
        /\ reqs[s].resp.pagination.hasPrev
        /\ reqs[s].resp.pagination.totalPages = reqs[s].resp.total

\* C20: the list responses for join applications, events and users each
\* carry count, total and a pagination block {currentPage, totalPages,
\* hasNext, hasPrev}.
ListHasPagination ==
    \A s \in Slots : ListDone(s) =>
        /\ {"count", "total", "pagination"} \subseteq DOMAIN reqs[s].resp
        /\ DOMAIN reqs[s].resp.pagination =
              {"currentPage", "totalPages", "hasNext", "hasPrev"}

(***************************************************************************)
(* Reviewing a join application: PUT /api/join/:id/status.                 *)
(***************************************************************************)

\* updateData without the reviewed_at stamp.
JoinStatusDataNoStamp(status, reviewedBy) ==
    [status |-> Val(status)]
    @@ (IF reviewedBy # NULL THEN [reviewed_by |-> reviewedBy] ELSE <<>>)

\* updateData: status, reviewed_at and, if (reviewedBy), reviewed_by.
JoinStatusData(status, reviewedBy) ==
    [status |-> Val(status), reviewed_at |-> Some(now)]
    @@ (IF reviewedBy # NULL THEN [reviewed_by |-> reviewedBy] ELSE <<>>)

\* join_applications.reviewed_by UUID REFERENCES users(id), checked of the
\* rows an UPDATE writes.
JoinUpdateOk(data) ==
    "reviewed_by" \in DOMAIN data => UserExists(Val(data.reviewed_by))

\* PUT /api/join/:id/status; status and reviewedBy are the fields of the
\* body, the empty set when the body lacks them.
JoinStatusUpdate(s, id, status, reviewedBy) ==
    /\ Free(s)
    /\ LET r == [kind |-> "join.status", id |-> id, status |-> status,
                 reviewedBy |-> reviewedBy,
                 missing |-> Query(join_applications, [id |-> id]) = {}]
       IN
       IF status = NULL \/ Val(status) \notin ApplicationStatuses
       THEN /\ reqs' = [reqs EXCEPT ![s] = Done(r,
                   Reply(400, "Invalid status. Must be pending, approved, or rejected"))]
            /\ UNCHANGED join_applications
       ELSE LET updateData == JoinStatusData(status, reviewedBy)
                result == UpdateResult(join_applications, id, updateData)
            IN IF result = {}
               THEN /\ reqs' = [reqs EXCEPT ![s] =
                          Done(r, Reply(404, "Application not found"))]
                    /\ UNCHANGED join_applications
               ELSE IF ~JoinUpdateOk(updateData)
               THEN /\ reqs' = [reqs EXCEPT ![s] = Done(r, Thrown("update"))]
                    /\ UNCHANGED join_applications
               ELSE /\ join_applications' =
                          UpdateRows(join_applications, id, updateData)
                    /\ reqs' = [reqs EXCEPT ![s] = Done(r,
                          Reply(200, "")
                          @@ [data |-> LET row == CHOOSE x \in result : TRUE IN
                                       [id |-> row.id, status |-> row.status,
                                        reviewedAt |-> row.reviewed_at]])]
    /\ UNCHANGED <<users, events, event_registrations, tasks, announcements,
                   nextId, now>>

ApplicationIds == 1..MaxApplications

\* The bodies sent: 9 is the id of no user.
ReviewBodies ==
    {[status |-> NULL, reviewedBy |-> NULL],
     [status |-> Some("accepted"), reviewedBy |-> Some(1)],
     [status |-> Some("approved"), reviewedBy |-> Some(1)],
     [status |-> Some("approved"), reviewedBy |-> Some(9)],
     [status |-> Some("rejected"), reviewedBy |-> NULL]}

\* The one user is the reviewer; the applications come with another email.
InitReview ==
    /\ users = {u \in SomeUsers : u.id = 1}
    /\ join_applications = {}
    /\ events = {}
    /\ event_registrations = {}
    /\ tasks = {}
    /\ announcements = {}
    /\ reqs = [s \in Slots |-> Idle]
    /\ nextId = [NoIds EXCEPT !.users = 1]
    /\ now = 0

ReviewJoinBody == JoinBase @@ [email |-> "b@x.tn"]

NextReview ==
    \/ Tick
    \/ \E s \in Slots :
        \/ JoinSubmit(s, ReviewJoinBody)
        \/ JoinCheckUser(s)
        \/ JoinInsert(s)
        \/ \E id \in ApplicationIds, body \in ReviewBodies :
                JoinStatusUpdate(s, id, body.status, body.reviewedBy)

SpecReview == InitReview /\ [][NextReview]_vars

(***************************************************************************)
(* Properties of the review route, under SpecReview.                       *)
(***************************************************************************)

\* C13: PUT /api/join/:id/status answers 400 and writes nothing when status
\* is not one of pending, approved, rejected; answers 404 when no
\* application has the id; otherwise, the reviewer id, when one is given,
\* being the id of a user, it answers 200, sets the status, sets reviewed_at
\* to the current time and sets reviewed_by only when a reviewer id is given.
\* A reviewer id of no user fails the update and nothing is written.
StatusUpdateContract ==
    [][\A s \in Slots :
         (/\ Free(s)
          /\ reqs'[s] # reqs[s]
          /\ reqs'[s].pc = "done"
          /\ reqs'[s].kind = "join.status")
         => LET d == reqs'[s] IN
            IF d.status \notin {Some("pending"), Some("approved"), Some("rejected")}
            THEN d.resp.status = 400 /\ join_applications' = join_applications
            ELSE IF \A a \in join_applications : a.id # d.id
            THEN d.resp.status = 404 /\ join_applications' = join_applications
            ELSE IF d.reviewedBy # NULL /\ ~UserExists(Val(d.reviewedBy))
            THEN d.resp.via = "next" /\ join_applications' = join_applications
            ELSE /\ d.resp.status = 200
                 /\ Cardinality(join_applications') = Cardinality(join_applications)
                 /\ \A a \in join_applications :
                       IF a.id # d.id THEN a \in join_applications'
                       ELSE [a EXCEPT
                               !.status = Val(d.status),
                               !.reviewed_at = Some(now),
                               !.reviewed_by = IF d.reviewedBy = NULL
                                                  THEN a.reviewed_by
                                                  ELSE d.reviewedBy]
                            \in join_applications']_vars

\* A status update without reviewer id was answered 200 on an application
\* that keeps the reviewer of an earlier update.
ReviewerKeptWitness ==
    \E s \in Slots, a \in join_applications :
        /\ reqs[s].pc = "done"
        /\ reqs[s].kind = "join.status"
        /\ reqs[s].resp.status = 200
        /\ reqs[s].reviewedBy = NULL
        /\ a.id = reqs[s].id
        /\ a.status = Val(reqs[s].status)
        /\ a.reviewed_at = Some(now)
        /\ a.reviewed_by = Some(1)

\* C16: every task row POST /api/tasks inserts has status 'pending' and
\* progress 0, whatever status or progress the body carries.
CreatedTaskIsPending ==
    [][\A t \in tasks' :
         (\A x \in tasks : x.id # t.id)
         => t.status = "pending" /\ t.progress = 0]_vars

\* A task was created; the one body POST /api/tasks accepts here carries
\* status 'completed' and progress 100 (the others lack a required field or
\* the assigner).
PendingDespiteBodyWitness ==
    \E s \in Slots, t \in tasks :
        /\ reqs[s].pc = "done"
        /\ reqs[s].kind = "task.create"
        /\ reqs[s].resp.status = 201
        /\ t.id = reqs[s].id
        /\ t.status = "pending"
        /\ t.progress = 0
        /\ \A body \in TaskCreateBodies :
              (TaskSchemaErrors(body) = {} /\ "assignedBy" \in DOMAIN body)
              => (body.status = "completed" /\ body.progress = "100")

\* C17: a PUT /api/tasks/:id whose progress is a number outside [0,100] is
\* answered 200, and when progress is the only field of the body the
\* progress, status and completed_at of the task are unchanged.
OutOfRangeProgressIgnored ==
    [][\A s \in Slots :
         (/\ reqs[s].pc = "task.update.write"
          /\ reqs'[s] # reqs[s]
          /\ "progress" \in DOMAIN reqs[s].body
          /\ ParseInt(reqs[s].body.progress) # NULL
          /\ Val(ParseInt(reqs[s].body.progress)) \notin 0..100)
         => /\ reqs'[s].pc = "done"
            /\ reqs'[s].resp.status = 200
            /\ DOMAIN reqs[s].body = {"progress"} =>
                  \A t \in tasks, x \in tasks' :
                      x.id = t.id =>
                         /\ x.progress = t.progress
                         /\ x.status = t.status
                         /\ x.completed_at = t.completed_at]_vars

(***************************************************************************)
(* The event router with the clock running: create and update.             *)
(***************************************************************************)
NextActivation ==
    \/ Tick
    \/ \E s \in Slots :
        \/ \E body \in EventCreateBodies : EventCreate(s, body)
        \/ \E id \in EventIds, body \in EventUpdateBodies : EventUpdateFind(s, id, body)
        \/ EventUpdateWrite(s)

SpecActivation == InitEvents /\ [][NextActivation]_vars

\* C26: an event with is_active = true has a non-null activation_date.
ActiveHasActivationDate ==
    \A e \in events : e.is_active => e.activation_date # NULL

\* Two interleaved PUTs with isActive true were both answered 200 and the
\* event is active with its activation date.
ActiveStampedWitness ==
    \E e \in events :
        /\ e.is_active
        /\ e.activation_date # NULL
        /\ \A s \in Slots :
              /\ reqs[s].pc = "done"
              /\ reqs[s].kind = "event.update"
              /\ reqs[s].id = e.id
              /\ reqs[s].resp.status = 200

\* C14: once the activation_date of an event is set, no step changes it.
ActivationDateKept ==
    [][\A e \in events, x \in events' :
         (e.activation_date # NULL /\ x.id = e.id)
         => x.activation_date = e.activation_date]_vars

(***************************************************************************)
(* Updating a user: PUT /api/users/:id.                                    *)
(***************************************************************************)

\* The keys of userUpdateSchema.
UserUpdateFields ==
    {"firstName", "lastName", "phone", "telegramId", "discordId",
     "homeAddress", "fieldOfStudy", "department"}

UserUpdateSchemaErrors(body) ==
    {f \in UserUpdateFields : f \in DOMAIN body /\ body[f] = "bad"}

\* The validated value: stripUnknown removes the keys the schema lacks.
UserUpdateValue(body) == [f \in DOMAIN body \cap UserUpdateFields |-> body[f]]

\* if (value.f) updateData.column = value.f
SetIfTruthy(value, f, column) ==
    IF f \in DOMAIN value /\ value[f] # ""
        THEN [c \in {column} |-> Some(value[f])] ELSE <<>>

\* if (value.f !== undefined) updateData.column = value.f || null
SetOrNull(value, f, column) ==
    IF f \in DOMAIN value
        THEN [c \in {column} |-> IF value[f] # "" THEN Some(value[f]) ELSE NULL]
        ELSE <<>>

\* updateData that also writes the role.
UserUpdateDataWithRole(value) ==
    [role |-> "membre"] @@ SetIfTruthy(value, "firstName", "first_name")

\* updateData of PUT /api/users/:id.
UserUpdateData(value) ==
    SetIfTruthy(value, "firstName", "first_name")
    @@ SetIfTruthy(value, "lastName", "last_name")
    @@ SetIfTruthy(value, "phone", "phone")
    @@ SetOrNull(value, "telegramId", "telegram_id")
    @@ SetOrNull(value, "discordId", "discord_id")
    @@ SetOrNull(value, "homeAddress", "home_address")
    @@ SetIfTruthy(value, "fieldOfStudy", "field_of_study")
    @@ SetIfTruthy(value, "department", "department")

\* PUT /api/users/:id up to its second await: findById, validate, updateData.
\* unknownKeys is history: the keys of the body the schema does not have.
UserUpdateFind(s, id, body) ==
    /\ Free(s)
    /\ LET r == [kind |-> "user.update", id |-> id,
                 missing |-> Query(users, [id |-> id]) = {},
                 unknownKeys |-> DOMAIN body \ UserUpdateFields] IN
       reqs' = [reqs EXCEPT ![s] =
           IF FindByIdThrows(users, id) THEN Done(r, Thrown("findById"))
           ELSE IF UserUpdateSchemaErrors(body) # {}
                THEN Done(r, ValidationError(UserUpdateSchemaErrors(body)))
           ELSE [pc |-> "user.update.write",
                 updateData |-> UserUpdateData(UserUpdateValue(body))] @@ r]
    /\ UNCHANGED <<users, join_applications, events, event_registrations, tasks,
                   announcements, nextId, now>>

\* PUT /api/users/:id: db.update and the response.
UserUpdateWrite(s) ==
    /\ reqs[s].pc = "user.update.write"
    /\ LET r == reqs[s] IN
       /\ users' = UpdateRows(users, r.id, r.updateData)
       /\ reqs' = [reqs EXCEPT ![s] =
            IF UpdateResult(users, r.id, r.updateData) = {}
                THEN Done(r, Thrown("Failed to update user"))
                ELSE Done(r, Reply(200, ""))]
    /\ UNCHANGED <<join_applications, events, event_registrations, tasks,
                   announcements, nextId, now>>

\* The two users with the columns of their profile.
ProfileUsers ==
    {[first_name |-> Some("ok"), last_name |-> Some("ok"), phone |-> NULL,
      telegram_id |-> Some("tg"), discord_id |-> NULL, home_address |-> NULL,
      field_of_study |-> NULL, department |-> NULL] @@ u : u \in SomeUsers}

\* The ids of the users and one that is the id of no user.
ProfileIds == 1..(MaxUsers + 1)

UserUpdateBodies ==
    {<<>>,
     [firstName |-> "new", email |-> "evil@x.tn", role |-> "admin",
      is_active |-> "false", password_hash |-> "x", student_id |-> "S9"],
     [email |-> "evil@x.tn", role |-> "membre"],
     [telegramId |-> "", department |-> "it"],
     [firstName |-> "bad"],
     [lastName |-> "new", phone |-> "ok", discordId |-> "d",
      homeAddress |-> "", fieldOfStudy |-> "ok"]}

InitProfile ==
    /\ users = ProfileUsers
    /\ join_applications = {}
    /\ events = {}
    /\ event_registrations = {}
    /\ tasks = {}
    /\ announcements = {}
    /\ reqs = [s \in Slots |-> Idle]
    /\ nextId = [NoIds EXCEPT !.users = 2]
    /\ now = 0

NextProfile ==
    \E s \in Slots :
        \/ \E id \in ProfileIds, body \in UserUpdateBodies : UserUpdateFind(s, id, body)
        \/ UserUpdateWrite(s)

SpecProfile == InitProfile /\ [][NextProfile]_vars

(***************************************************************************)
(* Properties of the user update, under SpecProfile.                       *)
(***************************************************************************)

\* C18: no step of a PUT /api/users/:id changes the email, role, is_active,
\* password_hash or student_id of a user, whatever the body holds; no user
\* is added or removed.
ProtectedColumnsKept ==
    [][/\ {x.id : x \in users'} = {u.id : u \in users}
       /\ \A u \in users, x \in users' :
            x.id = u.id =>
               /\ x.email = u.email
               /\ x.role = u.role
               /\ x.is_active = u.is_active
               /\ x.password_hash = u.password_hash
               /\ x.student_id = u.student_id]_vars

\* An update whose body held email, role, is_active, password_hash and
\* student_id beside firstName was answered 200 and wrote the first name.
ForbiddenKeysWitness ==
    \E s \in Slots, x \in users :
        /\ reqs[s].pc = "done"
        /\ reqs[s].kind = "user.update"
        /\ reqs[s].resp.status = 200
        /\ {"email", "role", "is_active", "password_hash", "student_id"}
              \subseteq reqs[s].unknownKeys
        /\ x.id = reqs[s].id
        /\ x.first_name = Some("new")
        /\ \E u \in SomeUsers : u.id = x.id /\ u.email = x.email /\ u.role = x.role

(***************************************************************************)
(* Announcements router.                                                   *)
(***************************************************************************)
AnnouncementRequired == {"title", "content", "category"}
AnnouncementOptional == {"isImportant", "targetAudience", "targetDepartment"}
AnnouncementAudiences == {"all", "department", "admins"}
DepartmentNames == {"it", "events", "social-media", "design", "extern"}

\* The schema checking the presence of the required fields only.
AnnouncementSchemaErrorsPresence(body) ==
    {f \in AnnouncementRequired : f \notin DOMAIN body}

\* The fields announcementSchema reports an error for (abortEarly: false).
AnnouncementSchemaErrors(body) ==
    {f \in AnnouncementRequired : f \notin DOMAIN body \/ body[f] = "bad"}
    \cup {f \in {"isImportant"} :
            /\ f \in DOMAIN body
            /\ TypeOf(body[f]) # "boolean"
            /\ body[f].v \notin {"true", "false"}}
    \cup {f \in {"targetAudience"} :
            f \in DOMAIN body /\ body[f] \notin AnnouncementAudiences}
    \cup {f \in {"targetDepartment"} :
            f \in DOMAIN body /\ body[f] \notin DepartmentNames}

\* isImportant: Joi.boolean().default(false); targetAudience: default('all')
AnnouncementDefaults == [isImportant |-> JBool(FALSE), targetAudience |-> "all"]

\* The validated value: stripUnknown removes the keys the schema lacks and
\* the defaults fill isImportant and targetAudience.
AnnouncementValue(body) ==
    [f \in DOMAIN body \cap (AnnouncementRequired \cup AnnouncementOptional)
        |-> body[f]]
    @@ AnnouncementDefaults

\* updateData with the required columns only.
AnnouncementUpdatePartial(value) ==
    [title |-> value.title, content |-> value.content,
     category |-> value.category]

\* updateData of PUT /api/announcements/:id.
AnnouncementUpdateData(value) ==
    [title |-> value.title,
     content |-> value.content,
     is_important |-> BoolOf(value.isImportant),
     category |-> value.category,
     target_audience |-> value.targetAudience,
     target_department |-> OrNull(value, "targetDepartment")]

\* announcementData of POST /api/announcements: 'system' is the id of no
\* user, as 0 is here.
AnnouncementData(value, body) ==
    [title |-> value.title,
     content |-> value.content,
     is_important |-> BoolOf(value.isImportant),
     category |-> value.category,
     target_audience |-> value.targetAudience,
     target_department |-> OrNull(value, "targetDepartment"),
     author_id |-> IF "authorId" \in DOMAIN body THEN body.authorId ELSE 0]

\* announcements.author_id UUID REFERENCES users(id) NOT NULL
AnnouncementInsertOk(data) == UserExists(data.author_id)

\* The inserted row: the columns of the table the model follows, with their
\* defaults.
AnnouncementRow(id, data) ==
    Merge([id |-> id, title |-> "", content |-> "", category |-> "",
           is_important |-> FALSE, target_audience |-> "all",
           target_department |-> NULL, author_id |-> 0], data)

\* POST /api/announcements
AnnouncementCreate(s, body) ==
    /\ Free(s)
    /\ LET r == [kind |-> "announcement.create", id |-> nextId.announcements + 1,
                 absent |-> AnnouncementRequired \ DOMAIN body]
           announcementData == AnnouncementData(AnnouncementValue(body), body)
       IN
       IF AnnouncementSchemaErrors(body) # {}
       THEN /\ reqs' = [reqs EXCEPT ![s] =
                   Done(r, ValidationError(AnnouncementSchemaErrors(body)))]
            /\ UNCHANGED <<announcements, nextId>>
       ELSE IF ~AnnouncementInsertOk(announcementData)
       THEN /\ reqs' = [reqs EXCEPT ![s] = Done(r, Thrown("insert"))]
            /\ UNCHANGED <<announcements, nextId>>
       ELSE /\ nextId.announcements < MaxAnnouncements
            /\ announcements' = announcements \cup
                   {AnnouncementRow(nextId.announcements + 1, announcementData)}
            /\ nextId' = [nextId EXCEPT !.announcements = @ + 1]
            /\ reqs' = [reqs EXCEPT ![s] = Done(r, Reply(201, ""))]
    /\ UNCHANGED <<users, join_applications, events, event_registrations,
                   tasks, now>>

\* The optional fields of the body whose column holds a value other than
\* the one an omitted field is given.
AnnouncementReplaced(body, existingAnnouncement) ==
    {f \in AnnouncementOptional \ DOMAIN body :
        \/ f = "isImportant" /\ existingAnnouncement.is_important
        \/ f = "targetAudience" /\ existingAnnouncement.target_audience # "all"
        \/ f = "targetDepartment" /\ existingAnnouncement.target_department # NULL}

\* PUT /api/announcements/:id up to its second await: findById, validate,
\* updateData.  omitted and replaced are history, as for the events.
AnnouncementUpdateFind(s, id, body) ==
    /\ Free(s)
    /\ LET r == [kind |-> "announcement.update", id |-> id,
                 missing |-> Query(announcements, [id |-> id]) = {}] IN
       reqs' = [reqs EXCEPT ![s] =
           IF FindByIdThrows(announcements, id) THEN Done(r, Thrown("findById"))
           ELSE IF AnnouncementSchemaErrors(body) # {}
                THEN Done(r, ValidationError(AnnouncementSchemaErrors(body)))
           ELSE [pc |-> "announcement.update.write",
                 updateData |-> AnnouncementUpdateData(AnnouncementValue(body)),
                 omitted |-> AnnouncementOptional \ DOMAIN body,
                 replaced |-> AnnouncementReplaced(body,
                                  FindByIdData(announcements, id))]
                @@ r]
    /\ UNCHANGED <<users, join_applications, events, event_registrations, tasks,
                   announcements, nextId, now>>

\* PUT /api/announcements/:id: db.update and the response.
AnnouncementUpdateWrite(s) ==
    /\ reqs[s].pc = "announcement.update.write"
    /\ LET r == reqs[s] IN
       /\ announcements' = UpdateRows(announcements, r.id, r.updateData)
       /\ reqs' = [reqs EXCEPT ![s] =
            IF UpdateResult(announcements, r.id, r.updateData) = {}
                THEN Done(r, Thrown("Failed to update announcement"))
                ELSE Done(r, Reply(200, ""))]
    /\ UNCHANGED <<users, join_applications, events, event_registrations, tasks,
                   nextId, now>>

AnnouncementIds == 1..MaxAnnouncements

AnnouncementBase ==
    [title |-> "ok", content |-> "ok", category |-> "ok", authorId |-> 1]

\* Bodies that break the schema while their other fields are valid.
AnnouncementBadBodies ==
    {[title |-> "bad"] @@ AnnouncementBase,
     AnnouncementBase @@ [targetAudience |-> "everyone", isImportant |-> JBool(TRUE)],
     [k \in {"title", "category"} |-> "ok"]}

AnnouncementCreateBodies ==
    {AnnouncementBase @@ [isImportant |-> JBool(TRUE),
                          targetAudience |-> "department",
                          targetDepartment |-> "it"],
     AnnouncementBase,
     [k \in AnnouncementRequired |-> "ok"]}
    \cup AnnouncementBadBodies

AnnouncementUpdateBodies ==
    {[title |-> "new"] @@ AnnouncementBase,
     AnnouncementBase @@ [isImportant |-> JBool(TRUE)],
     AnnouncementBase @@ [targetAudience |-> "admins",
                          targetDepartment |-> "design"]}
    \cup AnnouncementBadBodies

\* Event bodies with and without the optional fields.
ReplaceEventCreateBodies ==
    {EventBase @@ [difficulty |-> "hard", imageUrl |-> "u", department |-> "it"],
     EventBase @@ [difficulty |-> "hard"],
     [k \in DOMAIN EventBase \ {"createdBy"} |-> EventBase[k]]}
    \cup EventBadBodies

ReplaceEventUpdateBodies ==
    {EventBase,
     EventBase @@ [difficulty |-> "easy"],
     EventBase @@ [imageUrl |-> "v", department |-> "design",
                   maxAttendees |-> Some(1)]}
    \cup EventBadBodies

NextReplace ==
    \E s \in Slots :
        \/ \E body \in AnnouncementCreateBodies : AnnouncementCreate(s, body)
        \/ \E id \in AnnouncementIds, body \in AnnouncementUpdateBodies :
              AnnouncementUpdateFind(s, id, body)
        \/ AnnouncementUpdateWrite(s)
        \/ \E body \in ReplaceEventCreateBodies : EventCreate(s, body)
        \/ \E id \in EventIds, body \in ReplaceEventUpdateBodies :
              EventUpdateFind(s, id, body)
        \/ EventUpdateWrite(s)

SpecReplace == InitEvents /\ [][NextReplace]_vars

(***************************************************************************)
(* Properties of the two PUT routes, under SpecReplace.                    *)
(***************************************************************************)

\* C30: PUT /api/announcements/:id and PUT /api/events/:id replace the
\* optional columns: after an update answered 200 whose body omits an
\* optional field, the stored row has target_department null, is_important
\* false and target_audience 'all', or difficulty, image_url and department
\* null, for the fields omitted, whatever it held before.
PutIsFullReplacement ==
    [][\A s \in Slots :
         /\ (/\ reqs[s].pc = "announcement.update.write"
             /\ reqs'[s].pc = "done"
             /\ reqs'[s].resp.status = 200)
            => \E a \in announcements' :
                 /\ a.id = reqs[s].id
                 /\ "targetDepartment" \in reqs[s].omitted
                       => a.target_department = NULL
                 /\ "isImportant" \in reqs[s].omitted => ~a.is_important
                 /\ "targetAudience" \in reqs[s].omitted
                       => a.target_audience = "all"
         /\ (/\ reqs[s].pc = "event.update.write"
             /\ reqs'[s].pc = "done"
             /\ reqs'[s].resp.status = 200)
            => \E e \in events' :
                 /\ e.id = reqs[s].id
                 /\ "difficulty" \in reqs[s].omitted => e.difficulty = NULL
                 /\ "imageUrl" \in reqs[s].omitted => e.image_url = NULL
                 /\ "department" \in reqs[s].omitted => e.department = NULL]_vars

\* An announcement stored important, for a department, and an event stored
\* with difficulty, image and department were each updated with a body
\* that omits the optional fields: both rows hold the reset values.
ReplacedWitness ==
    \E s1, s2 \in Slots, a \in announcements, e \in events :
        /\ reqs[s1].pc = "done" /\ reqs[s1].kind = "announcement.update"
        /\ reqs[s1].resp.status = 200
        /\ reqs[s1].replaced = AnnouncementOptional
        /\ a.id = reqs[s1].id
        /\ a.target_department = NULL /\ ~a.is_important
        /\ a.target_audience = "all"
        /\ reqs[s2].pc = "done" /\ reqs[s2].kind = "event.update"
        /\ reqs[s2].resp.status = 200
        /\ reqs[s2].replaced = EventOptional
        /\ e.id = reqs[s2].id
        /\ e.difficulty = NULL /\ e.image_url = NULL /\ e.department = NULL

(***************************************************************************)
(* The attendee count: GET /api/events/:id beside the list and register.   *)
(***************************************************************************)

\* GET /api/events/:id up to its second await: findById.
EventGetFind(s, id) ==
    /\ Free(s)
    /\ LET r == [kind |-> "event.get", id |-> id,
                 missing |-> Query(events, [id |-> id]) = {}] IN
       reqs' = [reqs EXCEPT ![s] =
           IF FindByIdThrows(events, id) THEN Done(r, Thrown("findById"))
           ELSE [pc |-> "event.get.count"] @@ r]
    /\ UNCHANGED <<users, join_applications, events, event_registrations, tasks,
                   announcements, nextId, now>>

\* GET /api/events/:id: the query for the 'registered' rows and the
\* response, whose currentAttendees is their number.
EventGetCount(s) ==
    /\ reqs[s].pc = "event.get.count"
    /\ LET r == reqs[s]
           registrations ==
               Query(event_registrations,
                     [event_id |-> r.id, status |-> "registered"])
       IN reqs' = [reqs EXCEPT ![s] = Done(r,
              Reply(200, "")
              @@ [currentAttendees |-> Cardinality(registrations)])]
    /\ UNCHANGED <<users, join_applications, events, event_registrations, tasks,
                   announcements, nextId, now>>

\* The events of ListEvents, each activated by a PUT at time 0 that also
\* set max_attendees to 2.
ActivatedEvents ==
    {[e EXCEPT !.is_active = TRUE, !.activation_date = Some(0),
               !.max_attendees = Some(2)] : e \in ListEvents(MaxEvents)}

AttendanceListQueries == {<<>>, [active |-> "true"], [page |-> "2"]}

AttendanceUpdateBodies ==
    {EventBase @@ [maxAttendees |-> Some(1)],
     EventBase @@ [isActive |-> JBool(FALSE)]}
    \cup EventBadBodies

InitAttendance ==
    /\ users = SomeUsers
    /\ join_applications = {}
    /\ events = ActivatedEvents
    /\ event_registrations = {}
    /\ tasks = {}
    /\ announcements = {}
    /\ reqs = [s \in Slots |-> Idle]
    /\ nextId = [NoIds EXCEPT !.users = 2, !.events = MaxEvents]
    /\ now = 0

NextAttendance ==
    \E s \in Slots :
        \/ \E id \in EventIds, body \in RegisterBodies : RegisterFind(s, id, body)
        \/ RegisterCount(s)
        \/ RegisterExisting(s)
        \/ RegisterInsert(s)
        \/ \E id \in EventIds, body \in AttendanceUpdateBodies :
              EventUpdateFind(s, id, body)
        \/ EventUpdateWrite(s)
        \/ \E id \in 1..(MaxEvents + 1) : EventGetFind(s, id)
        \/ EventGetCount(s)
        \/ \E query \in AttendanceListQueries : EventList(s, query)

SpecAttendance == InitAttendance /\ [][NextAttendance]_vars

\* C28: no step changes the current_attendees of an event, and every
\* currentAttendees GET /api/events reports is the initial value 0, however
\* many registrations have been inserted.
AttendeeCounterUntouched ==
    [][/\ \A e \in events, e2 \in events' :
            e.id = e2.id => e2.current_attendees = e.current_attendees
       /\ \A s \in Slots :
            (/\ reqs'[s] # reqs[s]
             /\ reqs'[s].pc = "done"
             /\ reqs'[s].kind = "event.list")
            => \A i \in 1..Len(reqs'[s].resp.currentAttendees) :
                  reqs'[s].resp.currentAttendees[i] = 0]_vars

\* With two 'registered' rows for the event, GET /api/events reported
\* currentAttendees 0 for it and GET /api/events/:id reported 2.
CounterDiffersWitness ==
    \E s1, s2 \in Slots :
        /\ reqs[s1].pc = "done" /\ reqs[s1].kind = "event.list"
        /\ reqs[s1].resp.data = <<1>>
        /\ reqs[s1].resp.currentAttendees = <<0>>
        /\ reqs[s2].pc = "done" /\ reqs[s2].kind = "event.get"
        /\ reqs[s2].id = 1
        /\ reqs[s2].resp.status = 200
        /\ reqs[s2].resp.currentAttendees = 2
        /\ Cardinality(Registered(1)) = 2

(***************************************************************************)
(* The schema-validated routes together.                                   *)
(***************************************************************************)

\* Bodies with one field that breaks its schema while the others are valid.
JoinBadBodies ==
    {JoinBase @@ [email |-> "not an email"],
     [motivation |-> "bad"] @@ JoinBase @@ [email |-> "b@x.tn"],
     JoinBase}

TaskBadBodies ==
    {[title |-> "t0", description |-> "bad", assignedTo |-> 1, assignedBy |-> 1],
     [title |-> "t0", description |-> "ok", assignedBy |-> 1]}

UserUpdateBadBodies ==
    {[firstName |-> "bad", lastName |-> "new"],
     [phone |-> "bad", email |-> "evil@x.tn"]}

\* One user is stored: the email "b@x.tn" is free.
ValidationUsers == {u \in ProfileUsers : u.id = 1}

InitValidation ==
    /\ users = ValidationUsers
    /\ join_applications = {}
    /\ events = {}
    /\ event_registrations = {}
    /\ tasks = {}
    /\ announcements = {}
    /\ reqs = [s \in Slots |-> Idle]
    /\ nextId = [NoIds EXCEPT !.users = 1]
    /\ now = 0

\* One valid body per route beside the bodies that break the schema.
ValidationJoinBodies == {JoinBase @@ [email |-> "b@x.tn"]} \cup JoinBadBodies
ValidationEventBodies == {EventBase} \cup EventBadBodies
ValidationTaskBodies ==
    {[title |-> "t0", description |-> "ok", assignedTo |-> 1, assignedBy |-> 1]}
    \cup TaskBadBodies
ValidationAnnouncementBodies == {AnnouncementBase} \cup AnnouncementBadBodies
ValidationUserBodies == {[firstName |-> "ok"]} \cup UserUpdateBadBodies

NextValidation ==
    \E s \in Slots :
        \/ \E body \in ValidationJoinBodies : JoinSubmit(s, body)
        \/ JoinCheckUser(s)
        \/ JoinInsert(s)
        \/ \E body \in ValidationEventBodies : EventCreate(s, body)
        \/ \E id \in EventIds, body \in ValidationEventBodies :
              EventUpdateFind(s, id, body)
        \/ EventUpdateWrite(s)
        \/ \E body \in ValidationTaskBodies : TaskCreate(s, body)
        \/ \E body \in ValidationAnnouncementBodies : AnnouncementCreate(s, body)
        \/ \E id \in AnnouncementIds, body \in ValidationAnnouncementBodies :
              AnnouncementUpdateFind(s, id, body)
        \/ AnnouncementUpdateWrite(s)
        \/ \E id \in UserIds, body \in ValidationUserBodies :
              UserUpdateFind(s, id, body)
        \/ UserUpdateWrite(s)

SpecValidation == InitValidation /\ [][NextValidation]_vars

\* The step is the arrival of a request of that kind at slot s.
Arrives(s, kind) ==
    /\ Free(s)
    /\ reqs'[s] # reqs[s]
    /\ reqs'[s].kind = kind

\* The step leaves every table as it was and ends the request of slot s.
NothingIssued(s) ==
    /\ reqs'[s].pc = "done"
    /\ UNCHANGED <<users, join_applications, events, event_registrations,
                   tasks, announcements>>

\* The step answers slot s with 400 and the list of the invalid fields.
Answered400(s) ==
    /\ reqs'[s].resp.status = 400
    /\ reqs'[s].resp.details # {}

\* C24: validation is all-or-nothing: on each schema-validated route the
\* step that takes a body with an invalid field, the other fields being
\* valid, ends the request before any insert or update and leaves every
\* stored row unchanged; it is answered 400 with the invalid fields (on the
\* PUT routes when the row exists: the lookup comes before the validation).
ValidationAllOrNothing ==
    [][\A s \in Slots :
         /\ Arrives(s, "join.submit") =>
               \A body \in JoinBadBodies :
                  JoinSubmit(s, body) => NothingIssued(s) /\ Answered400(s)
         /\ Arrives(s, "event.create") =>
               \A body \in EventBadBodies :
                  EventCreate(s, body) => NothingIssued(s) /\ Answered400(s)
         /\ Arrives(s, "task.create") =>
               \A body \in TaskBadBodies :
                  TaskCreate(s, body) => NothingIssued(s) /\ Answered400(s)
         /\ Arrives(s, "announcement.create") =>
               \A body \in AnnouncementBadBodies :
                  AnnouncementCreate(s, body)
                  => NothingIssued(s) /\ Answered400(s)
         /\ Arrives(s, "event.update") =>
               \A id \in EventIds, body \in EventBadBodies :
                  EventUpdateFind(s, id, body)
                  => /\ NothingIssued(s)
                     /\ (\E e \in events : e.id = id) => Answered400(s)
         /\ Arrives(s, "announcement.update") =>
               \A id \in AnnouncementIds, body \in AnnouncementBadBodies :
                  AnnouncementUpdateFind(s, id, body)
                  => /\ NothingIssued(s)
                     /\ (\E a \in announcements : a.id = id) => Answered400(s)
         /\ Arrives(s, "user.update") =>
               \A id \in UserIds, body \in UserUpdateBadBodies :
                  UserUpdateFind(s, id, body)
                  => /\ NothingIssued(s)
                     /\ (\E u \in users : u.id = id) => Answered400(s)]_vars

\* PUT /api/announcements/1 with an invalid targetAudience beside valid
\* fields and PUT /api/users/1 with an invalid field beside a valid one
\* were answered 400, and the announcement and the user are as stored.
RejectedBodiesWitness ==
    \E s1, s2 \in Slots :
        /\ reqs[s1].pc = "done" /\ reqs[s1].kind = "announcement.update"
        /\ reqs[s1].resp.status = 400
        /\ reqs[s1].resp.details = {"targetAudience"}
        /\ \E a \in announcements :
              a.id = reqs[s1].id /\ a.target_audience = "all" /\ ~a.is_important
        /\ reqs[s2].pc = "done" /\ reqs[s2].kind = "user.update"
        /\ reqs[s2].resp.status = 400
        /\ reqs[s2].resp.details = {"firstName"}
        /\ users = ValidationUsers

====
